---- MODULE Spec2Model ----
(***************************************************************************)
(* Model of the chunking engine of TextbookChunker                         *)
(* (src/improved_chunk_textbook.py): clean_text, count_tokens,             *)
(* split_text_semantically, create_intelligent_overlap,                    *)
(* post_process_chunks, generate_embedding and process_textbook; and of    *)
(* the uploaders of src/upload_syllabus.py, src/upload_grading_content.py  *)
(* and src/use_existing_index.py.                                          *)
(*                                                                         *)
(* A text is a sequence of one-character strings.  The alphabet keeps one  *)
(* or two representatives of every character class the regular             *)
(* expressions and the tokenizer tell apart: letters, digits, the blank,   *)
(* the newline, sentence-terminal punctuation, other allowed punctuation   *)
(* and characters outside the allow-list.                                  *)
(***************************************************************************)
EXTENDS Integers, Sequences, FiniteSets, TLC

(***************************************************************************)
(* Character classes                                                       *)
(***************************************************************************)
Letters == {"a", "b"}
Digits == {"1", "2"}
Blank == " "
Newline == "\n"
Whitespace == {Blank, Newline}
\* [.!?] of the sentence boundary pattern
Terminals == {".", "!", "?"}
\* the punctuation kept by the allow-list of clean_text
AllowedPunct == {".", ",", ";", ":", "!", "?", "-", "(", ")", "[", "]", "{", "}", "\"", "'"}
\* a character outside the allow-list
Artifacts == {"#"}

IsSpace(c) == c \in Whitespace
IsDigit(c) == c \in Digits
IsLetter(c) == c \in Letters
\* \w of the regular expressions: letters, digits (and the underscore)
IsWordChar(c) == IsLetter(c) \/ IsDigit(c)
\* [^\s\p{L}\p{N}] of the tokenizer's pattern
IsOther(c) == ~IsSpace(c) /\ ~IsLetter(c) /\ ~IsDigit(c)

(***************************************************************************)
(* Sequence helpers                                                        *)
(***************************************************************************)
\* s[a..b], empty when a > b
Slice(s, a, b) == [j \in 1..(b - a + 1) |-> s[a + j - 1]]

\* the positions of s, in order
Positions(s) == [j \in 1..Len(s) |-> j]

\* The end (exclusive) of the run of one character class that holds p: the
\* first position >= p outside the class, Len(s) + 1 if there is none.
RECURSIVE SkipSpace(_, _)
SkipSpace(s, p) ==
    IF p <= Len(s) /\ IsSpace(s[p]) THEN SkipSpace(s, p + 1) ELSE p

RECURSIVE SkipDigits(_, _)
SkipDigits(s, p) ==
    IF p <= Len(s) /\ IsDigit(s[p]) THEN SkipDigits(s, p + 1) ELSE p

RECURSIVE SkipNewlines(_, _)
SkipNewlines(s, p) ==
    IF p <= Len(s) /\ s[p] = Newline THEN SkipNewlines(s, p + 1) ELSE p

\* The start of the run that holds p: the first position of the run.
RECURSIVE SpaceRunStart(_, _)
SpaceRunStart(s, p) ==
    IF p > 1 /\ IsSpace(s[p - 1]) THEN SpaceRunStart(s, p - 1) ELSE p

RECURSIVE DigitRunStart(_, _)
DigitRunStart(s, p) ==
    IF p > 1 /\ IsDigit(s[p - 1]) THEN DigitRunStart(s, p - 1) ELSE p

\* the last newline of the positions [p, e), 0 if none
LastNewlineIn(s, p, e) ==
    LET nl == {r \in p..(e - 1) : s[r] = Newline}
    IN  IF nl = {} THEN 0 ELSE CHOOSE r \in nl : \A x \in nl : x <= r

\* the first newline of the positions [p, e), 0 if none
FirstNewlineIn(s, p, e) ==
    LET nl == {r \in p..(e - 1) : s[r] = Newline}
    IN  IF nl = {} THEN 0 ELSE CHOOSE r \in nl : \A x \in nl : r <= x

\* str.strip(): leading and trailing whitespace removed
Strip(s) ==
    LET solid == SelectSeq(Positions(s), LAMBDA p : ~IsSpace(s[p]))
    IN  IF solid = <<>> THEN <<>> ELSE Slice(s, solid[1], solid[Len(solid)])

\* a + " " + b
JoinBlank(a, b) == a \o <<Blank>> \o b

\* re.split(pattern, s) for a pattern whose matches are exactly the maximal
\* runs of the positions that satisfy IsSep: the pieces between the runs,
\* empty pieces included.
SplitAt(s, IsSep(_)) ==
    LET n == Len(s)
        first == SelectSeq(Positions(s),
                           LAMBDA p : IsSep(p) /\ (p = 1 \/ ~IsSep(p - 1)))
        last == SelectSeq(Positions(s),
                          LAMBDA p : IsSep(p) /\ (p = n \/ ~IsSep(p + 1)))
        m == Len(first)
    IN  [k \in 1..(m + 1) |->
            Slice(s, IF k = 1 THEN 1 ELSE last[k - 1] + 1,
                     IF k = m + 1 THEN n ELSE first[k] - 1)]

(***************************************************************************)
(* clean_text                                                              *)
(***************************************************************************)
\* re.sub(r'\s+', ' ', text): every run of whitespace becomes one blank
CollapseWhitespace(s) ==
    LET kept == SelectSeq(Positions(s),
                          LAMBDA p : ~IsSpace(s[p]) \/ p = 1 \/ ~IsSpace(s[p - 1]))
    IN  [k \in 1..Len(kept) |-> IF IsSpace(s[kept[k]]) THEN Blank ELSE s[kept[k]]]

\* ^ under re.MULTILINE: the start of the text or just after a newline
AtLineStart(s, p) == p = 1 \/ s[p - 1] = Newline
\* $ under re.MULTILINE: the end of the text or just before a newline
AtLineEnd(s, p) == p = Len(s) + 1 \/ s[p] = Newline

\* The end (exclusive) of the match of ^\d+\s*$ that starts at p, 0 if none:
\* \s* is greedy and gives characters back until $ holds.
DigitLineEnd(s, p) ==
    IF ~(p <= Len(s) /\ AtLineStart(s, p) /\ IsDigit(s[p])) THEN 0
    ELSE LET q == SkipDigits(s, p)
             ends == {r \in q..SkipSpace(s, q) : AtLineEnd(s, r)}
         IN  IF ends = {} THEN 0 ELSE CHOOSE r \in ends : \A x \in ends : x <= r

\* p lies in a match of ^\d+\s*$.  A match is a run of digits at the start
\* of a line and whitespace after it, so the match that could hold p starts
\* at the digit run that holds p or that ends where p's whitespace run starts.
InDigitLine(s, p) ==
    LET u == IF IsSpace(s[p]) THEN SpaceRunStart(s, p) ELSE p
        d == IF IsDigit(s[p]) THEN DigitRunStart(s, p)
             ELSE IF IsSpace(s[p]) /\ u > 1 /\ IsDigit(s[u - 1])
                  THEN DigitRunStart(s, u - 1)
             ELSE 0
    IN  d > 0 /\ DigitLineEnd(s, d) > p

\* re.sub(r'^\d+\s*$', '', text, flags=re.MULTILINE)
RemoveDigitLines(s) ==
    LET kept == SelectSeq(Positions(s), LAMBDA p : ~InDigitLine(s, p))
    IN  [k \in 1..Len(kept) |-> s[kept[k]]]

\* re.sub(r'[^\w\s\.\,\;\:\!\?\-\(\)\[\]\{\}\"\']', '', text)
Allowed(c) == IsWordChar(c) \/ IsSpace(c) \/ c \in AllowedPunct

StripDisallowed(s) == SelectSeq(s, Allowed)

clean_text(text) ==
    Strip(StripDisallowed(RemoveDigitLines(CollapseWhitespace(text))))

(***************************************************************************)
(* count_tokens: len(tokenizer.encode(text)) for the cl100k_base encoding. *)
(* The encoding first cuts the text into pieces, left to right, with the   *)
(* pattern                                                                 *)
(*   [^\r\n\p{L}\p{N}]?\p{L}+ | \p{N}{1,3} | ?[^\s\p{L}\p{N}]+[\r\n]*      *)
(*   | \s*[\r\n]+ | \s+(?!\S) | \s+                                        *)
(* and never merges across pieces; every piece over this alphabet (a short *)
(* word with its leading blank, up to three digits, a punctuation mark     *)
(* with its leading blank, a blank) is one entry of the vocabulary, so the *)
(* count is the number of pieces.                                          *)
(***************************************************************************)
\* A piece starts at p.
\*  - a letter run starts a piece unless the character before it is taken
\*    as the optional first character of the word piece: a blank, or a lone
\*    punctuation mark that starts a piece itself;
\*  - a digit run is cut every three digits;
\*  - a punctuation run starts a piece unless a blank before it is taken;
\*  - of a whitespace run (after the newlines a punctuation piece before it
\*    takes): its start, the blank after its last newline, and its last
\*    blank when a non-space follows.
IsPieceStart(s, p) ==
    LET c == s[p]
        n == Len(s)
    IN  IF IsLetter(c) THEN
            \/ p = 1
            \/ IsDigit(s[p - 1])
            \/ s[p - 1] = Newline
            \/ IsOther(s[p - 1]) /\ p > 2 /\ (IsOther(s[p - 2]) \/ s[p - 2] = Blank)
        ELSE IF IsDigit(c) THEN (p - DigitRunStart(s, p)) % 3 = 0
        ELSE IF IsOther(c) THEN p = 1 \/ (~IsOther(s[p - 1]) /\ s[p - 1] # Blank)
        ELSE LET u == SpaceRunStart(s, p)
                 v == SkipSpace(s, p)
                 u1 == IF u > 1 /\ IsOther(s[u - 1]) THEN SkipNewlines(s, u) ELSE u
                 nl == LastNewlineIn(s, u1, v)
                 w == IF nl > 0 THEN nl + 1 ELSE u1
             IN  p >= u1 /\ (p = u1 \/ p = w \/ (v <= n /\ p = v - 1 /\ p >= w))

count_tokens(text) ==
    Len(SelectSeq(Positions(text), LAMBDA p : IsPieceStart(text, p)))

(***************************************************************************)
(* Splitting                                                               *)
(***************************************************************************)
\* re.split(r'(?<=[.!?])\s+', text): the text is cut at the whitespace runs
\* that follow a sentence-terminal character.
SplitSentences(s) ==
    SplitAt(s, LAMBDA p : /\ IsSpace(s[p])
                          /\ SpaceRunStart(s, p) > 1
                          /\ s[SpaceRunStart(s, p) - 1] \in Terminals)

\* re.split(r'\n\s*\n', text): a match runs from the first newline of a
\* whitespace run to its last one, when they differ.
InBlankLine(s, p) ==
    /\ IsSpace(s[p])
    /\ LET u == SpaceRunStart(s, p)
           v == SkipSpace(s, p)
           a == FirstNewlineIn(s, u, v)
           b == LastNewlineIn(s, u, v)
       IN  a > 0 /\ a < b /\ a <= p /\ p <= b

\* [p.strip() for p in paragraphs if p.strip()]
StripNonEmpty(ps) ==
    LET stripped == [k \in 1..Len(ps) |-> Strip(ps[k])]
    IN  SelectSeq(stripped, LAMBDA t : t # <<>>)

SplitParagraphs(s) == StripNonEmpty(SplitAt(s, LAMBDA p : InBlankLine(s, p)))

\* str.split(): the maximal runs of non-whitespace
SplitWords(s) ==
    SelectSeq(SplitAt(s, LAMBDA p : IsSpace(s[p])), LAMBDA t : t # <<>>)

(***************************************************************************)
(* create_intelligent_overlap                                              *)
(***************************************************************************)
\* The inner loop over reversed(words): st = [text, count] is the overlap
\* built so far; j is the word looked at, from the last one down.
RECURSIVE OverlapWords(_, _, _, _)
OverlapWords(words, j, st, budget) ==
    IF j = 0 THEN st
    ELSE LET word_tokens == count_tokens(words[j] \o <<Blank>>)
         IN  IF st.count + word_tokens <= budget
             THEN OverlapWords(words, j - 1,
                      [text |-> JoinBlank(words[j], st.text),
                       count |-> st.count + word_tokens], budget)
             ELSE st

\* the loop over reversed(sentences) without the break of line 201: it goes
\* on to the earlier sentences after the words
RECURSIVE OverlapSentences_NoBreak(_, _, _, _)
OverlapSentences_NoBreak(sentences, j, st, budget) ==
    IF j = 0 THEN st
    ELSE LET sentence_tokens == count_tokens(sentences[j])
         IN  IF st.count + sentence_tokens <= budget
             THEN OverlapSentences_NoBreak(sentences, j - 1,
                      [text |-> JoinBlank(sentences[j], st.text),
                       count |-> st.count + sentence_tokens], budget)
             ELSE LET words == SplitWords(sentences[j])
                  IN  OverlapSentences_NoBreak(sentences, j - 1,
                          OverlapWords(words, Len(words), st, budget), budget)

\* The loop over reversed(sentences): whole sentences while they fit, then
\* the trailing words of the first sentence that does not, then stop.
RECURSIVE OverlapSentences(_, _, _, _)
OverlapSentences(sentences, j, st, budget) ==
    IF j = 0 THEN st
    ELSE LET sentence_tokens == count_tokens(sentences[j])
         IN  IF st.count + sentence_tokens <= budget
             THEN OverlapSentences(sentences, j - 1,
                      [text |-> JoinBlank(sentences[j], st.text),
                       count |-> st.count + sentence_tokens], budget)
             ELSE LET words == SplitWords(sentences[j])
                  IN  OverlapWords(words, Len(words), st, budget)

\* budget is self.overlap_tokens
create_intelligent_overlap(text, budget) ==
    IF count_tokens(text) <= budget THEN text
    ELSE LET sentences == SplitSentences(text)
         IN  Strip(OverlapSentences(sentences, Len(sentences),
                                    [text |-> <<>>, count |-> 0], budget).text)

(***************************************************************************)
(* Configuration (TextbookChunker.__init__, lines 71-74).  Texts of 800    *)
(* tokens are out of reach of the model checker, so one token of the model *)
(* stands for TokenScale tokens of the program: every budget is the        *)
(* source's value divided by TokenScale, which keeps their order and the   *)
(* room between them.                                                      *)
(***************************************************************************)
TokenScale == 25
max_tokens == 512 \div TokenScale
overlap_tokens == 50 \div TokenScale
\* (mutant) the merge threshold set to the chunk budget
min_chunk_tokens_AsBudget == 512 \div TokenScale
min_chunk_tokens == 50 \div TokenScale
max_chunk_tokens == 800 \div TokenScale

(***************************************************************************)
(* split_text_semantically, lines 117-145: large paragraphs are regrouped  *)
(* by sentences.                                                           *)
(***************************************************************************)
\* the loop over the sentences of one large paragraph
RECURSIVE GroupFrom(_, _, _, _)
GroupFrom(sentences, j, current_group, group_tokens) ==
    IF j > Len(sentences)
    THEN (IF Strip(current_group) # <<>> THEN <<Strip(current_group)>> ELSE <<>>)
    ELSE LET sentence == sentences[j]
             sentence_tokens == count_tokens(sentence)
         IN  IF group_tokens + sentence_tokens > max_tokens /\ current_group # <<>>
             THEN <<Strip(current_group)>>
                      \o GroupFrom(sentences, j + 1, sentence, sentence_tokens)
             ELSE GroupFrom(sentences, j + 1,
                      IF current_group # <<>> THEN JoinBlank(current_group, sentence)
                      ELSE sentence,
                      group_tokens + sentence_tokens)

\* a paragraph is split as soon as it is above max_tokens
ProcessParagraph_SplitsAboveBudget(para) ==
    IF count_tokens(para) > max_tokens
    THEN GroupFrom(SplitSentences(para), 1, <<>>, 0)
    ELSE <<para>>

\* lines 119-145: one paragraph
ProcessParagraph(para) ==
    IF count_tokens(para) > max_tokens * 2
    THEN GroupFrom(SplitSentences(para), 1, <<>>, 0)
    ELSE <<para>>

RECURSIVE ProcessParagraphs(_)
ProcessParagraphs(paragraphs) ==
    IF paragraphs = <<>> THEN <<>>
    ELSE ProcessParagraph(Head(paragraphs)) \o ProcessParagraphs(Tail(paragraphs))

\* the segments of the raw text, line 111 left out
Segments_NoCleaning(raw) == ProcessParagraphs(SplitParagraphs(raw))

\* lines 111-145: the segments of a raw text
Segments(raw) == ProcessParagraphs(SplitParagraphs(clean_text(raw)))

(***************************************************************************)
(* The conditions of the assembly loop and of post_process_chunks          *)
(***************************************************************************)
\* (mutant) the budget test forgets the paragraph about to be added
MustClose_IgnoresParagraph(cur_tokens, para_tokens, cur_chunk) ==
    cur_tokens > max_tokens /\ cur_chunk # <<>>

\* line 155: the paragraph does not fit and the buffer is non-empty
MustClose(cur_tokens, para_tokens, cur_chunk) ==
    cur_tokens + para_tokens > max_tokens /\ cur_chunk # <<>>

\* (mutant) the lower bound of line 212 is missing
Accepted_NoMinimum(tokens) == tokens <= max_chunk_tokens

\* line 212
Accepted(tokens) == tokens >= min_chunk_tokens /\ tokens <= max_chunk_tokens

\* line 214
Mergeable(finals, tokens) == finals # <<>> /\ tokens < min_chunk_tokens

(***************************************************************************)
(* State                                                                   *)
(***************************************************************************)
VARIABLES
    pc,                   \* the position of the run
    text,                 \* the raw input text
    cleaned,              \* clean_text(text)
    recleaned,            \* clean_text(clean_text(text))
    processed_paragraphs, \* the segments
    i,                    \* the index of the loop in progress (1-based)
    chunks,               \* the chunks closed by the assembly loop
    current_chunk,        \* the buffer of the assembly loop
    current_tokens,       \* its running token count
    final_chunks,         \* the list built by post_process_chunks
    budget,               \* the overlap budget of a create_intelligent_overlap call
    overlap_out,          \* its result
    \* history variables, read by the properties only
    chunk_info,           \* per closed chunk: its segments, overlap prefix, running count
    cur_info,             \* the same for the buffer
    final_src,            \* per final chunk: the indices of the chunks it holds
    \* process_textbook
    pdf,                  \* the file at pdf_path: whether it exists, is readable, its text
    faults,               \* the failures the services may show in this run
    stats,                \* self.stats
    records,              \* the records prepared for the upload
    attempt,              \* the attempt number inside generate_embedding
    now,                  \* the clock, in ticks
    index,                \* the identifiers held by the namespace of the index
    result,               \* the value process_textbook returns
    error,                \* the exception caught at line 351
    run,                  \* the number of the run on this document
    \* history variables, read by the properties only
    calls,                \* per chunk: the outcomes of its embedding calls, in order
    batches,              \* the batches submitted, in order, with their outcome
    waits,                \* per chunk: the seconds slept after its failed calls, in order
    \* the uploaders of the syllabus, the rubric and the existing index
    uploader,             \* the uploader function in progress
    sections,             \* the sections found in the text of the document
    section_chunks        \* the chunks built from the sections, with their ids

splitVars == <<cleaned, recleaned, processed_paragraphs, current_chunk,
               current_tokens, final_chunks, budget, overlap_out, chunk_info,
               cur_info, final_src>>

uploaderVars == <<uploader, sections, section_chunks>>

runVars == <<pdf, faults, stats, records, attempt, now, index, result, error, run,
             calls, batches, waits, uploader, sections, section_chunks>>

vars == <<pc, text, cleaned, recleaned, processed_paragraphs, i, chunks,
          current_chunk, current_tokens, final_chunks, budget, overlap_out,
          chunk_info, cur_info, final_src, pdf, faults, stats, records, attempt,
          now, index, result, error, run, calls, batches, waits, uploader,
          sections, section_chunks>>

NoInfo == [segs |-> <<>>, overlap |-> <<>>]

UploaderIdle ==
    /\ uploader = ""
    /\ sections = <<>>
    /\ section_chunks = <<>>

(***************************************************************************)
(* split_text_semantically                                                 *)
(***************************************************************************)
\* lines 111-150: normalize, split into paragraphs, regroup the large ones
Segment ==
    /\ pc = "segment"
    /\ cleaned' = clean_text(text)
    /\ processed_paragraphs' = Segments(text)
    /\ chunks' = <<>>
    /\ current_chunk' = <<>>
    /\ current_tokens' = 0
    /\ i' = 1
    /\ chunk_info' = <<>>
    /\ cur_info' = NoInfo
    /\ pc' = "assemble"
    /\ UNCHANGED <<text, recleaned, final_chunks, budget, overlap_out, final_src>>
    /\ UNCHANGED runVars

\* lines 155-162: close the buffer, seed the next one with the overlap
CloseChunk ==
    /\ pc = "assemble"
    /\ i <= Len(processed_paragraphs)
    /\ LET paragraph == processed_paragraphs[i]
           para_tokens == count_tokens(paragraph)
           overlap_text == create_intelligent_overlap(current_chunk, overlap_tokens)
           next_chunk == JoinBlank(overlap_text, paragraph)
       IN  /\ MustClose(current_tokens, para_tokens, current_chunk)
           /\ chunks' = Append(chunks, Strip(current_chunk))
           /\ chunk_info' = Append(chunk_info,
                                   [segs |-> cur_info.segs,
                                    overlap |-> cur_info.overlap,
                                    tokens |-> current_tokens])
           /\ current_chunk' = next_chunk
           /\ current_tokens' = count_tokens(next_chunk)
           /\ cur_info' = [segs |-> <<i>>, overlap |-> overlap_text]
    /\ i' = i + 1
    /\ UNCHANGED <<pc, text, cleaned, recleaned, processed_paragraphs, final_chunks,
                   budget, overlap_out, final_src>>
    /\ UNCHANGED runVars

\* lines 163-168: append the paragraph to the buffer
AppendParagraph ==
    /\ pc = "assemble"
    /\ i <= Len(processed_paragraphs)
    /\ LET paragraph == processed_paragraphs[i]
           para_tokens == count_tokens(paragraph)
       IN  /\ ~MustClose(current_tokens, para_tokens, current_chunk)
           /\ current_chunk' = IF current_chunk # <<>>
                               THEN JoinBlank(current_chunk, paragraph)
                               ELSE paragraph
           /\ current_tokens' = current_tokens + para_tokens
           /\ cur_info' = [cur_info EXCEPT !.segs = Append(@, i)]
    /\ i' = i + 1
    /\ UNCHANGED <<pc, text, cleaned, recleaned, processed_paragraphs, chunks,
                   final_chunks, budget, overlap_out, chunk_info, final_src>>
    /\ UNCHANGED runVars

\* lines 170-174: flush the buffer and enter post_process_chunks
Flush ==
    /\ pc = "assemble"
    /\ i > Len(processed_paragraphs)
    /\ IF Strip(current_chunk) # <<>>
       THEN /\ chunks' = Append(chunks, Strip(current_chunk))
            /\ chunk_info' = Append(chunk_info,
                                    [segs |-> cur_info.segs,
                                     overlap |-> cur_info.overlap,
                                     tokens |-> current_tokens])
       ELSE UNCHANGED <<chunks, chunk_info>>
    /\ final_chunks' = <<>>
    /\ final_src' = <<>>
    /\ i' = 1
    /\ pc' = "post_process"
    /\ UNCHANGED <<text, cleaned, recleaned, processed_paragraphs, current_chunk,
                   current_tokens, budget, overlap_out, cur_info>>
    /\ UNCHANGED runVars

(***************************************************************************)
(* post_process_chunks                                                     *)
(***************************************************************************)
\* lines 212-213
KeepChunk ==
    /\ pc = "post_process"
    /\ i <= Len(chunks)
    /\ Accepted(count_tokens(chunks[i]))
    /\ final_chunks' = Append(final_chunks, chunks[i])
    /\ final_src' = Append(final_src, <<i>>)
    /\ i' = i + 1
    /\ UNCHANGED <<pc, text, cleaned, recleaned, processed_paragraphs, chunks,
                   current_chunk, current_tokens, budget, overlap_out, chunk_info,
                   cur_info>>
    /\ UNCHANGED runVars

\* an undersized chunk that becomes an entry of its own
MergeChunk_NewEntry ==
    /\ pc = "post_process"
    /\ i <= Len(chunks)
    /\ ~Accepted(count_tokens(chunks[i]))
    /\ Mergeable(final_chunks, count_tokens(chunks[i]))
    /\ final_chunks' = Append(final_chunks, chunks[i])
    /\ final_src' = Append(final_src, <<i>>)
    /\ i' = i + 1
    /\ UNCHANGED <<pc, text, cleaned, recleaned, processed_paragraphs, chunks,
                   current_chunk, current_tokens, budget, overlap_out, chunk_info,
                   cur_info>>
    /\ UNCHANGED runVars

\* lines 214-216
MergeChunk ==
    /\ pc = "post_process"
    /\ i <= Len(chunks)
    /\ ~Accepted(count_tokens(chunks[i]))
    /\ Mergeable(final_chunks, count_tokens(chunks[i]))
    /\ final_chunks' = [final_chunks EXCEPT
                           ![Len(final_chunks)] = JoinBlank(@, chunks[i])]
    /\ final_src' = [final_src EXCEPT ![Len(final_src)] = Append(@, i)]
    /\ i' = i + 1
    /\ UNCHANGED <<pc, text, cleaned, recleaned, processed_paragraphs, chunks,
                   current_chunk, current_tokens, budget, overlap_out, chunk_info,
                   cur_info>>
    /\ UNCHANGED runVars

\* neither branch of lines 212-216 is taken: the chunk goes nowhere
SkipChunk ==
    /\ pc = "post_process"
    /\ i <= Len(chunks)
    /\ ~Accepted(count_tokens(chunks[i]))
    /\ ~Mergeable(final_chunks, count_tokens(chunks[i]))
    /\ i' = i + 1
    /\ UNCHANGED <<pc, text, cleaned, recleaned, processed_paragraphs, chunks,
                   current_chunk, current_tokens, final_chunks, budget, overlap_out,
                   chunk_info, cur_info, final_src>>
    /\ UNCHANGED runVars

\* line 218
Return ==
    /\ pc = "post_process"
    /\ i > Len(chunks)
    /\ pc' = "done"
    /\ UNCHANGED <<text, cleaned, recleaned, processed_paragraphs, i, chunks,
                   current_chunk, current_tokens, final_chunks, budget, overlap_out,
                   chunk_info, cur_info, final_src>>
    /\ UNCHANGED runVars

(***************************************************************************)
(* The calls checked on their own                                          *)
(***************************************************************************)
\* clean_text(text)
Clean ==
    /\ pc = "clean_text"
    /\ cleaned' = clean_text(text)
    /\ pc' = "cleaned"
    /\ UNCHANGED <<text, recleaned, processed_paragraphs, i, chunks, current_chunk,
                   current_tokens, final_chunks, budget, overlap_out, chunk_info,
                   cur_info, final_src>>
    /\ UNCHANGED runVars

\* clean_text applied to its own result
CleanAgain ==
    /\ pc = "cleaned"
    /\ recleaned' = clean_text(cleaned)
    /\ pc' = "recleaned"
    /\ UNCHANGED <<text, cleaned, processed_paragraphs, i, chunks, current_chunk,
                   current_tokens, final_chunks, budget, overlap_out, chunk_info,
                   cur_info, final_src>>
    /\ UNCHANGED runVars

\* create_intelligent_overlap(text) with self.overlap_tokens = budget
Overlap ==
    /\ pc = "overlap"
    /\ overlap_out' = create_intelligent_overlap(text, budget)
    /\ pc' = "overlapped"
    /\ UNCHANGED <<text, cleaned, recleaned, processed_paragraphs, i, chunks,
                   current_chunk, current_tokens, final_chunks, budget, chunk_info,
                   cur_info, final_src>>
    /\ UNCHANGED runVars

\* lines 119-145 on the paragraph held by text
Regroup ==
    /\ pc = "regroup"
    /\ processed_paragraphs' = ProcessParagraph(text)
    /\ pc' = "regrouped"
    /\ UNCHANGED <<text, cleaned, recleaned, i, chunks, current_chunk,
                   current_tokens, final_chunks, budget, overlap_out, chunk_info,
                   cur_info, final_src>>
    /\ UNCHANGED runVars

(***************************************************************************)
(* Inputs                                                                  *)
(***************************************************************************)
MaxSentences == 3
MaxSegments == 3
MaxChunks == 3
MaxLen == 5
MaxBudget == 4

\* all sequences over S of length 0..n
SeqsUpTo(S, n) == UNION {[1..k -> S] : k \in 0..n}

\* the texts of a list joined by sep
RECURSIVE Join(_, _)
Join(ts, sep) ==
    IF ts = <<>> THEN <<>>
    ELSE IF Len(ts) = 1 THEN ts[1]
    ELSE ts[1] \o sep \o Join(Tail(ts), sep)

\* n words: the given first word, then "a"s
Phrase(first, n) == [j \in 1..(2 * n - 1) |->
                        IF j = 1 THEN first ELSE IF j % 2 = 0 THEN Blank ELSE "a"]

\* a sentence of n tokens: n - 1 words and the full stop
Sentence(first, n) == Phrase(first, n - 1) \o <<".">>

\* the token counts of the sentences tried: around every threshold
\* the 400-token paragraph of the two-paragraph scenario, in model tokens
ScenarioTokens == 400 \div TokenScale

SentenceSizes ==
    {1, 2, overlap_tokens + 1, ScenarioTokens, max_tokens, max_tokens + 1}

SentenceVocab ==
    {Sentence("a", n) : n \in SentenceSizes}
        \cup {Sentence("1", n) : n \in {2, max_tokens - 1}}
        \cup {Phrase("a", 1)}

\* texts that normalization empties: whitespace, artifacts, a page number
EmptiedTexts ==
    {<<Blank>>, <<Newline, Newline>>, <<"#">>, <<"#", Blank, "#">>, <<"1">>,
     <<"1", "2", Newline>>}

\* a document: sentences joined by blanks or by blank lines, or a text that
\* normalization empties
Documents ==
    {Join(d, sep) : d \in SeqsUpTo(SentenceVocab, MaxSentences),
                    sep \in {<<Blank>>, <<Newline, Newline>>}}
        \cup EmptiedTexts

\* a segment handed to the assembly loop: a sentence, or words without a full stop
SegmentVocab ==
    {Sentence("a", n) : n \in {2, max_tokens - 2, max_tokens, max_tokens + 1}}
        \cup {Sentence("1", n) : n \in {2, max_tokens}}
        \cup {Phrase("a", 1), Phrase("a", max_tokens)}

\* a chunk handed to post_process_chunks
ChunkSizes ==
    {1, min_chunk_tokens - 1, min_chunk_tokens, max_chunk_tokens, max_chunk_tokens + 1}

ChunkVocab == {Sentence(f, n) : f \in {"a", "1"}, n \in ChunkSizes}

\* a chunk handed to create_intelligent_overlap
OverlapInputs ==
    {Join(d, <<Blank>>) :
        d \in SeqsUpTo({Sentence(f, n) : f \in {"a", "1"}, n \in 1..3}
                           \cup {Phrase("a", 2)}, 3)}

\* a raw text handed to clean_text
RawAlphabet == {"a", "1", Blank, Newline, ".", "#"}

Idle ==
    /\ cleaned = <<>>
    /\ recleaned = <<>>
    /\ processed_paragraphs = <<>>
    /\ i = 1
    /\ chunks = <<>>
    /\ current_chunk = <<>>
    /\ current_tokens = 0
    /\ final_chunks = <<>>
    /\ budget = overlap_tokens
    /\ overlap_out = <<>>
    /\ chunk_info = <<>>
    /\ cur_info = NoInfo
    /\ final_src = <<>>

(***************************************************************************)
(* split_text_semantically and post_process_chunks as functions of their   *)
(* argument, for the callers                                               *)
(***************************************************************************)
RECURSIVE PostProcessFrom(_, _, _)
PostProcessFrom(cs, k, finals) ==
    IF k > Len(cs) THEN finals
    ELSE LET tokens == count_tokens(cs[k])
         IN  IF Accepted(tokens)
             THEN PostProcessFrom(cs, k + 1, Append(finals, cs[k]))
             ELSE IF Mergeable(finals, tokens)
             THEN PostProcessFrom(cs, k + 1,
                      [finals EXCEPT ![Len(finals)] = JoinBlank(@, cs[k])])
             ELSE PostProcessFrom(cs, k + 1, finals)

post_process_chunks(cs) == PostProcessFrom(cs, 1, <<>>)

RECURSIVE AssembleFrom(_, _, _, _, _)
AssembleFrom(paras, k, closed, cur, cur_tokens) ==
    IF k > Len(paras)
    THEN IF Strip(cur) # <<>> THEN Append(closed, Strip(cur)) ELSE closed
    ELSE LET paragraph == paras[k]
             para_tokens == count_tokens(paragraph)
         IN  IF MustClose(cur_tokens, para_tokens, cur)
             THEN LET next_chunk ==
                          JoinBlank(create_intelligent_overlap(cur, overlap_tokens),
                                    paragraph)
                  IN  AssembleFrom(paras, k + 1, Append(closed, Strip(cur)),
                                   next_chunk, count_tokens(next_chunk))
             ELSE AssembleFrom(paras, k + 1, closed,
                               IF cur # <<>> THEN JoinBlank(cur, paragraph)
                                             ELSE paragraph,
                               cur_tokens + para_tokens)

split_text_semantically(t) ==
    post_process_chunks(AssembleFrom(Segments(t), 1, <<>>, <<>>, 0))

(***************************************************************************)
(* generate_embedding and process_textbook                                 *)
(***************************************************************************)
\* the ticks of the clock in one second
TicksPerSecond == 2
\* the sentences of the largest document of a run
MaxRunSentences == 2
\* the records of the largest upload
MaxRecords == 250

\* the default of the retries parameter of generate_embedding
retries == 3
batch_size == 96

Min(a, b) == IF a <= b THEN a ELSE b

\* sum(self.count_tokens(c) for c in chunks)
SumTokens(cs) ==
    Cardinality(UNION {{<<k, t>> : t \in 1..count_tokens(cs[k])} : k \in 1..Len(cs)})

\* None
NoTime == 0 - 1

Stats0 ==
    [total_chunks |-> 0, successful_embeddings |-> 0, failed_embeddings |-> 0,
     total_tokens |-> 0, processing_time |-> 0, start_time |-> NoTime]

NoResult == [returned |-> FALSE]
NoPdf == [exists |-> FALSE, readable |-> FALSE, text |-> <<>>]

\* the failures of the embedding service, of the index and of the tokenizer
ServiceFaults == {"ServiceError", "InvalidInputError"}
AllFaults == ServiceFaults \cup {"PersistenceError", "TokenizerError"}

\* int(time.time())
Seconds(t) == t \div TicksPerSecond

\* line 256: for attempt in range(retries)
InRange(a) == a < retries

\* line 266
MayRetry(a) == a < retries - 1

\* a slice one record short
Batch_OffByOne(rs, k) == SubSeq(rs, k + 1, Min(k + batch_size - 1, Len(rs)))

\* a wait that grows by two seconds per attempt
Backoff_Product(a) == 2 * a

\* line 267: time.sleep(2 ** attempt), in seconds
Backoff(a) == 2 ^ a

\* line 331: records[i:i + self.batch_size], i counted from 0
Batch(rs, k) == SubSeq(rs, k + 1, Min(k + batch_size, Len(rs)))

\* line 304, built from the chunk index (counted from 0) and the clock
RecordId(k, t) == <<k, Seconds(t)>>

RunIdle ==
    /\ pdf = NoPdf
    /\ faults = {}
    /\ stats = Stats0
    /\ records = <<>>
    /\ attempt = 0
    /\ now = 0
    /\ index = {}
    /\ result = NoResult
    /\ error = ""
    /\ run = 1
    /\ UploaderIdle
    /\ calls = <<>>
    /\ batches = <<>>
    /\ waits = <<>>

\* line 274
Start ==
    /\ pc = "start"
    /\ stats' = [stats EXCEPT !.start_time = now]
    /\ pc' = "extract"
    /\ UNCHANGED <<text, i, chunks, pdf, faults, records, attempt, now, index,
                   result, error, run, calls, batches>>
    /\ UNCHANGED splitVars
    /\ UNCHANGED uploaderVars
    /\ UNCHANGED waits

\* lines 281-284 with extract_pdf_text (lines 219-252); reading the file takes
\* less than a tick or a tick
Extract ==
    /\ pc = "extract"
    /\ IF ~pdf.exists
       THEN /\ error' = "FileNotFoundError"
            /\ pc' = "except"
            /\ UNCHANGED <<text, now>>
       ELSE IF ~pdf.readable
       THEN /\ error' = "PdfReadError"
            /\ pc' = "except"
            /\ UNCHANGED <<text, now>>
       ELSE /\ text' = pdf.text
            /\ \E d \in 0..1 : now' = now + d
            /\ IF Strip(pdf.text) = <<>>
               THEN error' = "ValueError" /\ pc' = "except"
               ELSE error' = error /\ pc' = "chunk"
    /\ UNCHANGED <<i, chunks, pdf, faults, stats, records, attempt, index, result,
                   run, calls, batches>>
    /\ UNCHANGED splitVars
    /\ UNCHANGED uploaderVars
    /\ UNCHANGED waits

\* lines 286-298
ChunkText ==
    /\ pc = "chunk"
    /\ chunks' = split_text_semantically(text)
    /\ stats' = [stats EXCEPT !.total_chunks = Len(chunks')]
    /\ records' = <<>>
    /\ calls' = [c \in 1..Len(chunks') |-> <<>>]
    /\ waits' = [c \in 1..Len(chunks') |-> <<>>]
    /\ i' = 1
    /\ attempt' = 0
    /\ pc' = "embed"
    /\ UNCHANGED <<text, pdf, faults, now, index, result, error, run, batches>>
    /\ UNCHANGED splitVars
    /\ UNCHANGED uploaderVars

\* count_tokens raises where the run is about to count: inside
\* split_text_semantically (line 120), for a record (line 310), for the
\* statistics (line 340); the exception reaches line 351
TokenizerRaises_FallsBack ==
    /\ "TokenizerError" \in faults
    /\ error = ""
    /\ \/ pc = "chunk" /\ clean_text(text) # <<>>
       \/ pc = "record"
       \/ pc = "stats" /\ chunks # <<>>
    /\ error' = "TokenizerError"
    /\ UNCHANGED <<pc, text, i, chunks, pdf, faults, stats, records, attempt, now,
                   index, result, run, calls, batches>>
    /\ UNCHANGED splitVars
    /\ UNCHANGED uploaderVars
    /\ UNCHANGED waits

TokenizerRaises ==
    /\ "TokenizerError" \in faults
    /\ \/ pc = "chunk" /\ clean_text(text) # <<>>
       \/ pc = "record"
       \/ pc = "stats" /\ chunks # <<>>
    /\ error' = "TokenizerError"
    /\ pc' = "except"
    /\ UNCHANGED <<text, i, chunks, pdf, faults, stats, records, attempt, now,
                   index, result, run, calls, batches>>
    /\ UNCHANGED splitVars
    /\ UNCHANGED uploaderVars
    /\ UNCHANGED waits

\* lines 257-262 (the call returns a vector) with a loop that goes on
EmbeddingSucceeds_KeepsCalling ==
    /\ pc = "embed"
    /\ i <= Len(chunks)
    /\ InRange(attempt)
    /\ calls' = [calls EXCEPT ![i] = Append(@, "ok")]
    /\ attempt' = attempt + 1
    /\ UNCHANGED <<pc, text, i, chunks, pdf, faults, stats, records, now, index,
                   result, error, run, batches>>
    /\ UNCHANGED splitVars
    /\ UNCHANGED uploaderVars
    /\ UNCHANGED waits

\* lines 257-262: the call returns a vector and generate_embedding returns it
EmbeddingSucceeds ==
    /\ pc = "embed"
    /\ i <= Len(chunks)
    /\ InRange(attempt)
    /\ calls' = [calls EXCEPT ![i] = Append(@, "ok")]
    /\ attempt' = 0
    /\ pc' = "record"
    /\ UNCHANGED <<text, i, chunks, pdf, faults, stats, records, now, index, result,
                   error, run, batches>>
    /\ UNCHANGED splitVars
    /\ UNCHANGED uploaderVars
    /\ UNCHANGED waits

\* lines 264-267: the call raises, generate_embedding sleeps 2 ** attempt
\* seconds and tries again
EmbeddingRetries ==
    /\ pc = "embed"
    /\ i <= Len(chunks)
    /\ InRange(attempt)
    /\ MayRetry(attempt)
    /\ \E e \in faults \cap ServiceFaults :
           calls' = [calls EXCEPT ![i] = Append(@, e)]
    /\ now' = now + Backoff(attempt) * TicksPerSecond
    /\ waits' = [waits EXCEPT ![i] = Append(@, Backoff(attempt))]
    /\ attempt' = attempt + 1
    /\ UNCHANGED <<pc, text, i, chunks, pdf, faults, stats, records, index, result,
                   error, run, batches>>
    /\ UNCHANGED splitVars
    /\ UNCHANGED uploaderVars

\* the last call raises and the exception leaves generate_embedding
EmbeddingGivesUp_Raises ==
    /\ pc = "embed"
    /\ i <= Len(chunks)
    /\ InRange(attempt)
    /\ ~MayRetry(attempt)
    /\ \E e \in faults \cap ServiceFaults :
           /\ calls' = [calls EXCEPT ![i] = Append(@, e)]
           /\ error' = e
    /\ pc' = "except"
    /\ UNCHANGED <<text, i, chunks, pdf, faults, stats, records, attempt, now,
                   index, result, run, batches>>
    /\ UNCHANGED splitVars
    /\ UNCHANGED uploaderVars
    /\ UNCHANGED waits

\* lines 264-270 and 321-322: the last call raises, generate_embedding returns
\* None and the chunk is counted as failed
EmbeddingGivesUp ==
    /\ pc = "embed"
    /\ i <= Len(chunks)
    /\ InRange(attempt)
    /\ ~MayRetry(attempt)
    /\ \E e \in faults \cap ServiceFaults :
           calls' = [calls EXCEPT ![i] = Append(@, e)]
    /\ stats' = [stats EXCEPT !.failed_embeddings = @ + 1]
    /\ attempt' = 0
    /\ i' = i + 1
    /\ UNCHANGED <<pc, text, chunks, pdf, faults, records, now, index, result,
                   error, run, batches>>
    /\ UNCHANGED splitVars
    /\ UNCHANGED uploaderVars
    /\ UNCHANGED waits

\* a record numbered over the records kept so far
Record_RenumbersKept ==
    /\ pc = "record"
    /\ records' = Append(records, [id |-> RecordId(i - 1, now),
                                   chunk_index |-> Len(records)])
    /\ stats' = [stats EXCEPT !.successful_embeddings = @ + 1]
    /\ i' = i + 1
    /\ pc' = "embed"
    /\ UNCHANGED <<text, chunks, pdf, faults, attempt, now, index, result, error,
                   run, calls, batches>>
    /\ UNCHANGED splitVars
    /\ UNCHANGED uploaderVars
    /\ UNCHANGED waits

\* lines 302-320: the record of chunk i
Record ==
    /\ pc = "record"
    /\ records' = Append(records, [id |-> RecordId(i - 1, now),
                                   chunk_index |-> i - 1])
    /\ stats' = [stats EXCEPT !.successful_embeddings = @ + 1]
    /\ i' = i + 1
    /\ pc' = "embed"
    /\ UNCHANGED <<text, chunks, pdf, faults, attempt, now, index, result, error,
                   run, calls, batches>>
    /\ UNCHANGED splitVars
    /\ UNCHANGED uploaderVars
    /\ UNCHANGED waits

\* line 300 at the end of the chunks, line 330: i becomes the offset of the
\* batch, counted from 0
EmbeddingsDone ==
    /\ pc = "embed"
    /\ i > Len(chunks)
    /\ i' = 0
    /\ pc' = "upload"
    /\ UNCHANGED <<text, chunks, pdf, faults, stats, records, attempt, now, index,
                   result, error, run, calls, batches>>
    /\ UNCHANGED splitVars
    /\ UNCHANGED uploaderVars
    /\ UNCHANGED waits

\* lines 331-334
UpsertBatch ==
    /\ pc = "upload"
    /\ i < Len(records)
    /\ index' = index \cup {Batch(records, i)[k].id : k \in 1..Len(Batch(records, i))}
    /\ batches' = Append(batches, [records |-> Batch(records, i), ok |-> TRUE])
    /\ i' = i + batch_size
    /\ UNCHANGED <<pc, text, chunks, pdf, faults, stats, records, attempt, now,
                   result, error, run, calls>>
    /\ UNCHANGED splitVars
    /\ UNCHANGED uploaderVars
    /\ UNCHANGED waits

\* a failed upsert that is tried again, the offset left where it was
UpsertFails_RetriesBatch ==
    /\ pc = "upload"
    /\ i < Len(records)
    /\ "PersistenceError" \in faults
    /\ attempt' = 1 - attempt
    /\ UNCHANGED <<pc, text, i, chunks, pdf, faults, stats, records, now, index,
                   result, error, run, calls, batches>>
    /\ UNCHANGED splitVars
    /\ UNCHANGED uploaderVars
    /\ UNCHANGED waits

\* a failed upsert that leaves the handler of line 335 aside
UpsertFails_Aborts ==
    /\ pc = "upload"
    /\ i < Len(records)
    /\ "PersistenceError" \in faults
    /\ batches' = Append(batches, [records |-> Batch(records, i), ok |-> FALSE])
    /\ error' = "PersistenceError"
    /\ pc' = "except"
    /\ UNCHANGED <<text, i, chunks, pdf, faults, stats, records, attempt, now,
                   index, result, run, calls>>
    /\ UNCHANGED splitVars
    /\ UNCHANGED uploaderVars
    /\ UNCHANGED waits

\* lines 331-336: the upsert raises, the failure is logged
UpsertFails ==
    /\ pc = "upload"
    /\ i < Len(records)
    /\ "PersistenceError" \in faults
    /\ batches' = Append(batches, [records |-> Batch(records, i), ok |-> FALSE])
    /\ i' = i + batch_size
    /\ UNCHANGED <<pc, text, chunks, pdf, faults, stats, records, attempt, now,
                   index, result, error, run, calls>>
    /\ UNCHANGED splitVars
    /\ UNCHANGED uploaderVars
    /\ UNCHANGED waits

\* line 330 at the end of the records, line 339; the clock may still show
\* the tick of the start
UploadDone ==
    /\ pc = "upload"
    /\ i >= Len(records)
    /\ \E d \in 0..1 :
           /\ now' = now + d
           /\ stats' = [stats EXCEPT !.processing_time = now' - stats.start_time]
    /\ pc' = "stats"
    /\ UNCHANGED <<text, i, chunks, pdf, faults, records, attempt, index, result,
                   error, run, calls, batches>>
    /\ UNCHANGED splitVars
    /\ UNCHANGED uploaderVars
    /\ UNCHANGED waits

\* lines 340-349 with print_statistics (lines 360-371), which divides
\* total_chunks by processing_time at line 370
Summarize ==
    /\ pc = "stats"
    /\ stats' = [stats EXCEPT !.total_tokens = SumTokens(chunks)]
    /\ IF stats.processing_time = 0
       THEN /\ error' = "ZeroDivisionError"
            /\ pc' = "except"
            /\ UNCHANGED result
       ELSE /\ result' = [success |-> TRUE,
                          statistics |-> stats',
                          chunks_processed |-> Len(chunks),
                          embeddings_created |-> Len(records)]
            /\ pc' = "returned"
            /\ UNCHANGED error
    /\ UNCHANGED <<text, i, chunks, pdf, faults, records, attempt, now, index, run,
                   calls, batches>>
    /\ UNCHANGED splitVars
    /\ UNCHANGED uploaderVars
    /\ UNCHANGED waits

\* lines 351-357
Except ==
    /\ pc = "except"
    /\ result' = [success |-> FALSE, error |-> error, statistics |-> stats]
    /\ pc' = "returned"
    /\ UNCHANGED <<text, i, chunks, pdf, faults, stats, records, attempt, now,
                   index, error, run, calls, batches>>
    /\ UNCHANGED splitVars
    /\ UNCHANGED uploaderVars
    /\ UNCHANGED waits

\* main() is run again on the same file, later, against the same index
Rerun ==
    /\ pc = "returned"
    /\ run = 1
    /\ \E d \in 1..TicksPerSecond : now' = now + d
    /\ run' = 2
    /\ stats' = Stats0
    /\ records' = <<>>
    /\ attempt' = 0
    /\ result' = NoResult
    /\ error' = ""
    /\ calls' = <<>>
    /\ waits' = <<>>
    /\ text' = <<>>
    /\ chunks' = <<>>
    /\ i' = 1
    /\ pc' = "start"
    /\ UNCHANGED <<pdf, faults, index, batches>>
    /\ UNCHANGED splitVars
    /\ UNCHANGED uploaderVars

\* the text of a file: n sentences that make n chunks, a blank, an artifact,
\* a word
RunDocuments ==
    {Join([k \in 1..n |-> Sentence("a", max_tokens + 1)], <<Blank>>) :
        n \in 0..MaxRunSentences}
        \cup {<<Blank>>, <<"#">>, Phrase("a", 1)}

Pdfs ==
    {NoPdf, [exists |-> TRUE, readable |-> FALSE, text |-> <<>>]}
        \cup {[exists |-> TRUE, readable |-> TRUE, text |-> t] : t \in RunDocuments}

(***************************************************************************)
(* SpecRun: process_textbook on a file, with services that may fail        *)
(***************************************************************************)
InitRun ==
    /\ pc = "start"
    /\ text = <<>>
    /\ Idle
    /\ pdf \in Pdfs
    /\ faults = AllFaults
    /\ stats = Stats0
    /\ records = <<>>
    /\ attempt = 0
    /\ now = 0
    /\ index = {}
    /\ result = NoResult
    /\ error = ""
    /\ run = 1
    /\ UploaderIdle
    /\ calls = <<>>
    /\ batches = <<>>
    /\ waits = <<>>

NextRun ==
    \/ Start
    \/ Extract
    \/ ChunkText
    \/ TokenizerRaises
    \/ EmbeddingSucceeds
    \/ EmbeddingRetries
    \/ EmbeddingGivesUp
    \/ Record
    \/ EmbeddingsDone
    \/ UpsertBatch
    \/ UpsertFails
    \/ UploadDone
    \/ Summarize
    \/ Except

SpecRun == InitRun /\ [][NextRun]_vars

\* where the thread of process_textbook stands: every step of NextRun moves
\* it (the position, the chunk or batch offset, or the attempt)
position == <<pc, i, attempt>>

RunPositions ==
    {"start", "extract", "chunk", "embed", "record", "upload", "stats", "except",
     "returned"}

\* the thread is somewhere before its return and moves
Proceeds ==
    /\ pc # "returned"
    /\ pc' \in RunPositions
    /\ i' \in 0..(Len(chunks) + Len(records) + batch_size + 1)
    /\ attempt' \in 0..retries

\* process_textbook is one sequential thread: it does not stop before it
\* returns, every sleep ends and every service call returns or raises
SpecRunFair == InitRun /\ [][NextRun]_vars /\ WF_position(Proceeds)

(***************************************************************************)
(* SpecUpload: the upload loop and the end of process_textbook, on the     *)
(* records of n chunks that were all embedded                              *)
(***************************************************************************)
InitUpload ==
    /\ pc = "upload"
    /\ text = <<>>
    /\ cleaned = <<>>
    /\ recleaned = <<>>
    /\ processed_paragraphs = <<>>
    /\ current_chunk = <<>>
    /\ current_tokens = 0
    /\ final_chunks = <<>>
    /\ budget = overlap_tokens
    /\ overlap_out = <<>>
    /\ chunk_info = <<>>
    /\ cur_info = NoInfo
    /\ final_src = <<>>
    /\ i = 0
    /\ now \in 0..1
    /\ \E n \in 0..MaxRecords :
           /\ chunks = [k \in 1..n |-> Sentence("a", min_chunk_tokens)]
           /\ records = [k \in 1..n |-> [id |-> RecordId(k - 1, now),
                                         chunk_index |-> k - 1]]
           /\ calls = [k \in 1..n |-> <<"ok">>]
           /\ waits = [k \in 1..n |-> <<>>]
           /\ stats = [Stats0 EXCEPT !.start_time = 0,
                                     !.total_chunks = n,
                                     !.successful_embeddings = n]
    /\ pdf = NoPdf
    /\ faults = {"PersistenceError"}
    /\ attempt = 0
    /\ index = {}
    /\ result = NoResult
    /\ error = ""
    /\ run = 1
    /\ UploaderIdle
    /\ batches = <<>>

NextUpload ==
    \/ UpsertBatch
    \/ UpsertFails
    \/ UploadDone
    \/ Summarize
    \/ Except

SpecUpload == InitUpload /\ [][NextUpload]_vars

(***************************************************************************)
(* SpecRerun: process_textbook run twice on the same file against the same *)
(* index, with services that do not fail                                   *)
(***************************************************************************)
InitRerun ==
    /\ pc = "start"
    /\ text = <<>>
    /\ Idle
    /\ pdf \in Pdfs
    /\ faults = {}
    /\ stats = Stats0
    /\ records = <<>>
    /\ attempt = 0
    /\ now = 0
    /\ index = {}
    /\ result = NoResult
    /\ error = ""
    /\ run = 1
    /\ UploaderIdle
    /\ calls = <<>>
    /\ batches = <<>>
    /\ waits = <<>>

NextRerun ==
    \/ Start
    \/ Extract
    \/ ChunkText
    \/ EmbeddingSucceeds
    \/ Record
    \/ EmbeddingsDone
    \/ UpsertBatch
    \/ UploadDone
    \/ Summarize
    \/ Except
    \/ Rerun

SpecRerun == InitRerun /\ [][NextRerun]_vars

(***************************************************************************)
(* SpecReuse: process_textbook called twice on one TextbookChunker, whose  *)
(* self.stats is created once, by __init__ (lines 81-88)                   *)
(***************************************************************************)
\* process_textbook is entered again on the same instance: the locals are
\* new, self.stats is the dictionary the first call left
ProcessAgain ==
    /\ pc = "returned"
    /\ run = 1
    /\ run' = 2
    /\ records' = <<>>
    /\ attempt' = 0
    /\ result' = NoResult
    /\ error' = ""
    /\ calls' = <<>>
    /\ waits' = <<>>
    /\ batches' = <<>>
    /\ text' = <<>>
    /\ chunks' = <<>>
    /\ i' = 1
    /\ pc' = "start"
    /\ UNCHANGED <<pdf, faults, stats, now, index>>
    /\ UNCHANGED splitVars
    /\ UNCHANGED uploaderVars

InitReuse ==
    /\ pc = "start"
    /\ text = <<>>
    /\ Idle
    /\ pdf \in Pdfs
    /\ faults = {"ServiceError"}
    /\ stats = Stats0
    /\ records = <<>>
    /\ attempt = 0
    /\ now = 0
    /\ index = {}
    /\ result = NoResult
    /\ error = ""
    /\ run = 1
    /\ UploaderIdle
    /\ calls = <<>>
    /\ batches = <<>>
    /\ waits = <<>>

NextReuse ==
    \/ Start
    \/ Extract
    \/ ChunkText
    \/ EmbeddingSucceeds
    \/ EmbeddingRetries
    \/ EmbeddingGivesUp
    \/ Record
    \/ EmbeddingsDone
    \/ UpsertBatch
    \/ UploadDone
    \/ Summarize
    \/ Except
    \/ ProcessAgain

SpecReuse == InitReuse /\ [][NextReuse]_vars

(***************************************************************************)
(* Spec: split_text_semantically on a document                             *)
(***************************************************************************)
Init ==
    /\ pc = "segment"
    /\ text \in Documents
    /\ Idle
    /\ RunIdle

Next ==
    \/ Segment
    \/ CloseChunk
    \/ AppendParagraph
    \/ Flush
    \/ KeepChunk
    \/ MergeChunk
    \/ SkipChunk
    \/ Return

Spec == Init /\ [][Next]_vars

(***************************************************************************)
(* SpecAssemble: the assembly loop and post_process_chunks on an arbitrary *)
(* sequence of segments                                                    *)
(***************************************************************************)
InitAssemble ==
    /\ pc = "assemble"
    /\ text = <<>>
    /\ processed_paragraphs \in SeqsUpTo(SegmentVocab, MaxSegments)
    /\ cleaned = <<>>
    /\ recleaned = <<>>
    /\ i = 1
    /\ chunks = <<>>
    /\ current_chunk = <<>>
    /\ current_tokens = 0
    /\ final_chunks = <<>>
    /\ budget = overlap_tokens
    /\ overlap_out = <<>>
    /\ chunk_info = <<>>
    /\ cur_info = NoInfo
    /\ final_src = <<>>
    /\ RunIdle

NextAssemble ==
    \/ CloseChunk
    \/ AppendParagraph
    \/ Flush
    \/ KeepChunk
    \/ MergeChunk
    \/ SkipChunk
    \/ Return

SpecAssemble == InitAssemble /\ [][NextAssemble]_vars

(***************************************************************************)
(* SpecPost: post_process_chunks on an arbitrary sequence of chunks        *)
(***************************************************************************)
InitPost ==
    /\ pc = "post_process"
    /\ text = <<>>
    /\ chunks \in SeqsUpTo(ChunkVocab, MaxChunks)
    /\ chunk_info = [c \in 1..Len(chunks) |->
                        [segs |-> <<c>>, overlap |-> <<>>,
                         tokens |-> count_tokens(chunks[c])]]
    /\ cleaned = <<>>
    /\ recleaned = <<>>
    /\ processed_paragraphs = <<>>
    /\ i = 1
    /\ current_chunk = <<>>
    /\ current_tokens = 0
    /\ final_chunks = <<>>
    /\ budget = overlap_tokens
    /\ overlap_out = <<>>
    /\ cur_info = NoInfo
    /\ final_src = <<>>
    /\ RunIdle

NextPost ==
    \/ KeepChunk
    \/ MergeChunk
    \/ SkipChunk
    \/ Return

SpecPost == InitPost /\ [][NextPost]_vars

(***************************************************************************)
(* SpecOverlap: create_intelligent_overlap on an arbitrary chunk and       *)
(* overlap budget                                                          *)
(***************************************************************************)
InitOverlap ==
    /\ pc = "overlap"
    /\ text \in OverlapInputs
    /\ budget \in 0..MaxBudget
    /\ cleaned = <<>>
    /\ recleaned = <<>>
    /\ processed_paragraphs = <<>>
    /\ i = 1
    /\ chunks = <<>>
    /\ current_chunk = <<>>
    /\ current_tokens = 0
    /\ final_chunks = <<>>
    /\ overlap_out = <<>>
    /\ chunk_info = <<>>
    /\ cur_info = NoInfo
    /\ final_src = <<>>
    /\ RunIdle

NextOverlap == Overlap

SpecOverlap == InitOverlap /\ [][NextOverlap]_vars

(***************************************************************************)
(* SpecClean: clean_text on an arbitrary raw text, and on its own result   *)
(***************************************************************************)
InitClean ==
    /\ pc = "clean_text"
    /\ text \in SeqsUpTo(RawAlphabet, MaxLen)
    /\ Idle
    /\ RunIdle

NextClean ==
    \/ Clean
    \/ CleanAgain

SpecClean == InitClean /\ [][NextClean]_vars

(***************************************************************************)
(* SpecRegroup: the regrouping of one paragraph                            *)
(***************************************************************************)
MaxParaSentences == 4

\* sentences of half the budget, of the budget and above it, and words
\* without a full stop
RegroupVocab ==
    {Sentence(f, max_tokens \div 2) : f \in {"a", "1"}}
        \cup {Sentence("a", max_tokens), Sentence("a", max_tokens + 1),
              Phrase("a", 2)}

Paragraphs ==
    {Join(d, <<Blank>>) : d \in SeqsUpTo(RegroupVocab, MaxParaSentences) \ {<<>>}}

InitRegroup ==
    /\ pc = "regroup"
    /\ text \in Paragraphs
    /\ Idle
    /\ RunIdle

NextRegroup == Regroup

SpecRegroup == InitRegroup /\ [][NextRegroup]_vars

(***************************************************************************)
(* The uploaders: upload_syllabus_chunks (src/upload_syllabus.py, lines    *)
(* 196-230), upload_rubric_chunks (src/upload_grading_content.py, lines    *)
(* 129-157) and upload_chunks_to_index (src/use_existing_index.py, lines   *)
(* 119-153).  The three functions have one shape: the records are built    *)
(* from the chunks, then a loop upserts them batch by batch, the whole     *)
(* body inside one try whose except branch returns False.                  *)
(***************************************************************************)
Uploaders == {"upload_syllabus_chunks", "upload_rubric_chunks", "upload_chunks_to_index"}

\* upload_syllabus.py line 210, upload_grading_content.py line 143,
\* use_existing_index.py line 133
uploader_batch_size == 50

\* the prefix of the ids a chunker gives: upload_syllabus.py line 167,
\* upload_grading_content.py line 110, use_existing_index.py line 89
ChunkPrefix(f) ==
    CASE f = "upload_syllabus_chunks" -> "syllabus_chunk"
      [] f = "upload_rubric_chunks" -> "rubric_chunk"
      [] f = "upload_chunks_to_index" -> "chunk"

\* the prefix of the ids an uploader gives: upload_syllabus.py line 205,
\* upload_grading_content.py line 138 (the id of the chunk),
\* use_existing_index.py line 128
RecordPrefix(f) ==
    CASE f = "upload_syllabus_chunks" -> "syllabus_chunk"
      [] f = "upload_rubric_chunks" -> "rubric_chunk"
      [] f = "upload_chunks_to_index" -> "textbook_chunk"

\* upload_syllabus.py lines 202-207 and use_existing_index.py lines 125-130
\* number the records by enumerate; upload_grading_content.py lines 135-140
\* keep the id of the chunk
UploaderRecords(f, cs) ==
    [k \in 1..Len(cs) |->
        [id |-> IF f = "upload_rubric_chunks"
                THEN cs[k].id
                ELSE <<RecordPrefix(f), k - 1>>,
         text |-> cs[k].text]]

\* records[i:i + batch_size], i counted from 0
UploaderBatch(rs, k) == SubSeq(rs, k + 1, Min(k + uploader_batch_size, Len(rs)))

\* time.sleep(1) at upload_syllabus.py line 223 and use_existing_index.py
\* line 146; upload_rubric_chunks does not sleep
RateLimit(f) == IF f = "upload_rubric_chunks" THEN 0 ELSE 1

\* the records are built before the loop
UploaderPrepare ==
    /\ pc = "prepare"
    /\ records' = UploaderRecords(uploader, section_chunks)
    /\ i' = 0
    /\ pc' = "batches"
    /\ UNCHANGED <<text, chunks, pdf, faults, stats, attempt, now, index, result,
                   error, run, calls, batches, waits>>
    /\ UNCHANGED splitVars
    /\ UNCHANGED uploaderVars

\* one turn of the batch loop, index.upsert_records returning
UploaderUpsert ==
    /\ pc = "batches"
    /\ i < Len(records)
    /\ batches' = Append(batches, [records |-> UploaderBatch(records, i), ok |-> TRUE])
    /\ index' = index \cup {UploaderBatch(records, i)[k].id :
                               k \in 1..Len(UploaderBatch(records, i))}
    /\ now' = now + RateLimit(uploader) * TicksPerSecond
    /\ i' = i + uploader_batch_size
    /\ UNCHANGED <<pc, text, chunks, pdf, faults, stats, records, attempt, result,
                   error, run, calls, waits>>
    /\ UNCHANGED splitVars
    /\ UNCHANGED uploaderVars

\* index.upsert_records raises: the except branch of the function catches it
\* outside the loop and returns False
UploaderUpsertRaises ==
    /\ pc = "batches"
    /\ i < Len(records)
    /\ "PersistenceError" \in faults
    /\ batches' = Append(batches, [records |-> UploaderBatch(records, i), ok |-> FALSE])
    /\ error' = "PersistenceError"
    /\ result' = [success |-> FALSE]
    /\ pc' = "uploaded"
    /\ UNCHANGED <<text, i, chunks, pdf, faults, stats, records, attempt, now,
                   index, run, calls, waits>>
    /\ UNCHANGED splitVars
    /\ UNCHANGED uploaderVars

\* the loop has run to the end of the records: return True
UploaderReturn ==
    /\ pc = "batches"
    /\ i >= Len(records)
    /\ result' = [success |-> TRUE]
    /\ pc' = "uploaded"
    /\ UNCHANGED <<text, i, chunks, pdf, faults, stats, records, attempt, now,
                   index, error, run, calls, batches, waits>>
    /\ UNCHANGED splitVars
    /\ UNCHANGED uploaderVars

MaxUploaderRecords == 120

\* n chunks as the chunker of the uploader numbers them
NumberedChunks(f, n) ==
    [k \in 1..n |-> [id |-> <<ChunkPrefix(f), k - 1>>, text |-> Phrase("a", 1)]]

(***************************************************************************)
(* SpecUploader: one of the three uploaders on n chunks, with an index     *)
(* that may refuse a batch                                                 *)
(***************************************************************************)
InitUploader ==
    /\ pc = "prepare"
    /\ text = <<>>
    /\ Idle
    /\ pdf = NoPdf
    /\ faults = {"PersistenceError"}
    /\ stats = Stats0
    /\ records = <<>>
    /\ attempt = 0
    /\ now = 0
    /\ index = {}
    /\ result = NoResult
    /\ error = ""
    /\ run = 1
    /\ calls = <<>>
    /\ batches = <<>>
    /\ waits = <<>>
    /\ uploader \in Uploaders
    /\ sections = <<>>
    /\ \E n \in 0..MaxUploaderRecords : section_chunks = NumberedChunks(uploader, n)

NextUploader ==
    \/ UploaderPrepare
    \/ UploaderUpsert
    \/ UploaderUpsertRaises
    \/ UploaderReturn

SpecUploader == InitUploader /\ [][NextUploader]_vars

(***************************************************************************)
(* create_rubric_chunks (src/upload_grading_content.py, lines 37-127).     *)
(* Over the alphabet of the model (the letters a and b, two digits,        *)
(* whitespace and punctuation) the only section pattern that can match is  *)
(* the one of line 58, a letter, a full stop and a letter with optional    *)
(* whitespace around the full stop; the other patterns need words the      *)
(* alphabet cannot spell.                                                  *)
(***************************************************************************)
\* n times the character c
Repeat(c, n) == [j \in 1..n |-> c]

\* line 72 with the pattern of line 58, case ignored
IsSectionHeader(line) ==
    \E q \in 2..(Len(line) - 1) :
        /\ line[q] = "."
        /\ SpaceRunStart(line, q) > 1
        /\ IsLetter(line[SpaceRunStart(line, q) - 1])
        /\ SkipSpace(line, q + 1) <= Len(line)
        /\ IsLetter(line[SkipSpace(line, q + 1)])

\* lines 65-69: the lines of the text, stripped, the empty ones skipped
RubricLines(t) == StripNonEmpty(SplitAt(t, LAMBDA p : t[p] = Newline))

\* lines 66-82
RECURSIVE SectionsFrom(_, _, _, _)
SectionsFrom(lines, k, current_section, out) ==
    IF k > Len(lines)
    THEN IF current_section # <<>> THEN Append(out, Strip(current_section)) ELSE out
    ELSE IF IsSectionHeader(lines[k]) /\ current_section # <<>>
         THEN SectionsFrom(lines, k + 1, lines[k], Append(out, Strip(current_section)))
         ELSE SectionsFrom(lines, k + 1, current_section \o <<Blank>> \o lines[k], out)

\* lines 86-87: text.split('\n\n'), stripped, the empty paragraphs dropped
RubricParagraphs(t) ==
    StripNonEmpty(SplitAt(t, LAMBDA p :
        /\ t[p] = Newline
        /\ \/ (p > 1 /\ t[p - 1] = Newline)
           \/ (p < Len(t) /\ t[p + 1] = Newline)))

\* lines 61-87
RubricSections(t) ==
    LET found == SectionsFrom(RubricLines(t), 1, <<>>, <<>>)
    IN  IF found = <<>> THEN RubricParagraphs(t) ELSE found

\* line 97 with lines 101-103: re.split(r'[.!?]+', section), every piece
\* stripped, the empty ones skipped
RubricSentences(section) ==
    StripNonEmpty(SplitAt(section, LAMBDA p : section[p] \in Terminals))

\* lines 109-112 and 116-119: the chunk takes the length of the list as its
\* number
NextRubricChunk(cs, current) ==
    Append(cs, [id |-> <<"rubric_chunk", Len(cs)>>, text |-> Strip(current)])

\* lines 98-119
RECURSIVE RubricFill(_, _, _, _)
RubricFill(sentences, k, current, cs) ==
    IF k > Len(sentences)
    THEN IF current # <<>> THEN NextRubricChunk(cs, current) ELSE cs
    ELSE IF Len(current) + Len(sentences[k]) < 800
         THEN RubricFill(sentences, k + 1, current \o sentences[k] \o <<".", Blank>>, cs)
         ELSE RubricFill(sentences, k + 1, sentences[k] \o <<".", Blank>>,
                         IF current # <<>> THEN NextRubricChunk(cs, current) ELSE cs)

\* lines 61-87
FindRubricSections ==
    /\ pc = "rubric"
    /\ sections' = RubricSections(text)
    /\ section_chunks' = <<>>
    /\ i' = 1
    /\ pc' = "rubric_chunks"
    /\ UNCHANGED <<text, chunks, uploader>>
    /\ UNCHANGED splitVars
    /\ UNCHANGED <<pdf, faults, stats, records, attempt, now, index, result, error,
                   run, calls, batches, waits>>

\* lines 90-92: a section under 50 characters is skipped
RubricSkip ==
    /\ pc = "rubric_chunks"
    /\ i <= Len(sections)
    /\ Len(sections[i]) < 50
    /\ i' = i + 1
    /\ UNCHANGED <<pc, text, chunks>>
    /\ UNCHANGED splitVars
    /\ UNCHANGED uploaderVars
    /\ UNCHANGED <<pdf, faults, stats, records, attempt, now, index, result, error,
                   run, calls, batches, waits>>

\* lines 95-119: a section over 1000 characters is split by sentences
RubricSplit ==
    /\ pc = "rubric_chunks"
    /\ i <= Len(sections)
    /\ Len(sections[i]) > 1000
    /\ section_chunks' = RubricFill(RubricSentences(sections[i]), 1, <<>>, section_chunks)
    /\ i' = i + 1
    /\ UNCHANGED <<pc, text, chunks, uploader, sections>>
    /\ UNCHANGED splitVars
    /\ UNCHANGED <<pdf, faults, stats, records, attempt, now, index, result, error,
                   run, calls, batches, waits>>

\* lines 120-124: any other section is kept whole, under the number of the
\* section (enumerate counts from 0)
RubricKeep ==
    /\ pc = "rubric_chunks"
    /\ i <= Len(sections)
    /\ Len(sections[i]) >= 50
    /\ Len(sections[i]) <= 1000
    /\ section_chunks' = Append(section_chunks,
                                [id |-> <<"rubric_chunk", i - 1>>, text |-> sections[i]])
    /\ i' = i + 1
    /\ UNCHANGED <<pc, text, chunks, uploader, sections>>
    /\ UNCHANGED splitVars
    /\ UNCHANGED <<pdf, faults, stats, records, attempt, now, index, result, error,
                   run, calls, batches, waits>>

\* line 127, then upload_rubric (lines 169-175): no chunk, no upload
RubricReturn ==
    /\ pc = "rubric_chunks"
    /\ i > Len(sections)
    /\ IF section_chunks = <<>>
       THEN /\ result' = [success |-> FALSE]
            /\ pc' = "uploaded"
       ELSE /\ pc' = "prepare"
            /\ UNCHANGED result
    /\ UNCHANGED <<text, i, chunks>>
    /\ UNCHANGED splitVars
    /\ UNCHANGED uploaderVars
    /\ UNCHANGED <<pdf, faults, stats, records, attempt, now, index, error, run,
                   calls, batches, waits>>

MaxRubricLines == 3

\* the lines of a rubric: a header too short to keep, a header kept whole, a
\* header with four sentences of 300 characters, a line that continues the
\* section
RubricLineVocab ==
    {<<"a", ".", "b">>,
     <<"a", ".">> \o Repeat("b", 60),
     Join([k \in 1..4 |-> Repeat("a", 300) \o <<".">>], <<Blank>>),
     Repeat("b", 30)}

RubricTexts == {Join(ls, <<Newline>>) : ls \in SeqsUpTo(RubricLineVocab, MaxRubricLines)}

(***************************************************************************)
(* SpecRubric: upload_rubric from the text of the rubric on, with an index *)
(* that accepts every batch                                                *)
(***************************************************************************)
InitRubric ==
    /\ pc = "rubric"
    /\ text \in RubricTexts
    /\ Idle
    /\ pdf = NoPdf
    /\ faults = {}
    /\ stats = Stats0
    /\ records = <<>>
    /\ attempt = 0
    /\ now = 0
    /\ index = {}
    /\ result = NoResult
    /\ error = ""
    /\ run = 1
    /\ calls = <<>>
    /\ batches = <<>>
    /\ waits = <<>>
    /\ uploader = "upload_rubric_chunks"
    /\ sections = <<>>
    /\ section_chunks = <<>>

NextRubric ==
    \/ FindRubricSections
    \/ RubricSkip
    \/ RubricSplit
    \/ RubricKeep
    \/ RubricReturn
    \/ UploaderPrepare
    \/ UploaderUpsert
    \/ UploaderReturn

SpecRubric == InitRubric /\ [][NextRubric]_vars

(***************************************************************************)
(* create_syllabus_chunks (src/upload_syllabus.py, lines 54-194).  The     *)
(* syllabus texts of the model are written with the letters a, b, u, n, i, *)
(* t, s, w, e, k in both cases, digits, whitespace and the full stop; of   *)
(* the section patterns of lines 65-91 only WEEK\s+\d+ (line 76) and UNITS *)
(* (line 90) can be spelled with them.                                     *)
(***************************************************************************)
\* re.IGNORECASE, for the letters of the two patterns
Upper(c) ==
    CASE c = "u" -> "U" [] c = "n" -> "N" [] c = "i" -> "I" [] c = "t" -> "T"
      [] c = "s" -> "S" [] c = "w" -> "W" [] c = "e" -> "E" [] c = "k" -> "K"
      [] OTHER -> c

\* line 59: re.sub(r'\s+', ' ', text).strip()
Collapse(t) ==
    LET kept == SelectSeq(Positions(t),
                          LAMBDA p : ~IsSpace(t[p]) \/ p = 1 \/ ~IsSpace(t[p - 1]))
    IN  Strip([k \in 1..Len(kept) |->
                  IF IsSpace(t[kept[k]]) THEN Blank ELSE t[kept[k]]])

\* the word w, in any case, stands at position p of t
WordAt(t, p, w) ==
    /\ p + Len(w) - 1 <= Len(t)
    /\ \A k \in 1..Len(w) : Upper(t[p + k - 1]) = w[k]

\* line 90: UNITS
UnitsAt(t, p) == WordAt(t, p, <<"U", "N", "I", "T", "S">>)

\* line 76: WEEK\s+\d+
WeekAt(t, p) ==
    /\ WordAt(t, p, <<"W", "E", "E", "K">>)
    /\ p + 4 <= Len(t)
    /\ IsSpace(t[p + 4])
    /\ SkipSpace(t, p + 4) <= Len(t)
    /\ IsDigit(t[SkipSpace(t, p + 4)])

\* lines 94-101: the starts of the matches, sorted (positions counted from 1)
section_boundaries(t) == SelectSeq(Positions(t), LAMBDA p : UnitsAt(t, p) \/ WeekAt(t, p))

\* lines 104-109: a section runs from a boundary to the next one or to the
\* end of the text; it is stripped and dropped when empty
SectionsBetween(t, bs) ==
    StripNonEmpty([k \in 1..Len(bs) |->
                      Slice(t, bs[k], IF k + 1 <= Len(bs) THEN bs[k + 1] - 1 ELSE Len(t))])

\* lines 110-147: the collapsed text has no newline, so it is one line; no
\* pattern matched, so the line is no week line and current_section stays
\* empty: the line is the only section
SectionsWithoutHeader(t) == IF t = <<>> THEN <<>> ELSE <<t>>

\* lines 59-147
SyllabusSections(t) ==
    IF section_boundaries(Collapse(t)) # <<>>
    THEN SectionsBetween(Collapse(t), section_boundaries(Collapse(t)))
    ELSE SectionsWithoutHeader(Collapse(t))

\* lines 157-158
SyllabusSentences(section) ==
    StripNonEmpty(SplitAt(section, LAMBDA p : section[p] \in Terminals))

\* lines 165-172 and 176-183: chunk_id counts the chunks appended so far
NextSyllabusChunk(cs, current) ==
    IF Strip(current) # <<>>
    THEN Append(cs, [id |-> <<"syllabus_chunk", Len(cs)>>, text |-> Strip(current)])
    ELSE cs

\* lines 160-183
RECURSIVE SyllabusFill(_, _, _, _)
SyllabusFill(sentences, k, current, cs) ==
    IF k > Len(sentences)
    THEN NextSyllabusChunk(cs, current)
    ELSE IF Len(current) + Len(sentences[k]) < 1200
         THEN SyllabusFill(sentences, k + 1, current \o sentences[k] \o <<".", Blank>>, cs)
         ELSE SyllabusFill(sentences, k + 1, sentences[k] \o <<".", Blank>>,
                           NextSyllabusChunk(cs, current))

\* lines 59-151
FindSyllabusSections ==
    /\ pc = "syllabus"
    /\ sections' = SyllabusSections(text)
    /\ section_chunks' = <<>>
    /\ i' = 1
    /\ pc' = "syllabus_chunks"
    /\ UNCHANGED <<text, chunks, uploader>>
    /\ UNCHANGED splitVars
    /\ UNCHANGED <<pdf, faults, stats, records, attempt, now, index, result, error,
                   run, calls, batches, waits>>

\* lines 153-183: a section over 1000 characters is split by sentences
SyllabusSplit ==
    /\ pc = "syllabus_chunks"
    /\ i <= Len(sections)
    /\ Len(sections[i]) > 1000
    /\ section_chunks' = SyllabusFill(SyllabusSentences(sections[i]), 1, <<>>,
                                      section_chunks)
    /\ i' = i + 1
    /\ UNCHANGED <<pc, text, chunks, uploader, sections>>
    /\ UNCHANGED splitVars
    /\ UNCHANGED <<pdf, faults, stats, records, attempt, now, index, result, error,
                   run, calls, batches, waits>>

\* lines 184-192: any other section is one chunk
SyllabusKeep ==
    /\ pc = "syllabus_chunks"
    /\ i <= Len(sections)
    /\ Len(sections[i]) <= 1000
    /\ section_chunks' = Append(section_chunks,
                                [id |-> <<"syllabus_chunk", Len(section_chunks)>>,
                                 text |-> sections[i]])
    /\ i' = i + 1
    /\ UNCHANGED <<pc, text, chunks, uploader, sections>>
    /\ UNCHANGED splitVars
    /\ UNCHANGED <<pdf, faults, stats, records, attempt, now, index, result, error,
                   run, calls, batches, waits>>

\* line 194, then upload_syllabus (lines 245-249)
SyllabusReturn ==
    /\ pc = "syllabus_chunks"
    /\ i > Len(sections)
    /\ pc' = "prepare"
    /\ UNCHANGED <<text, i, chunks>>
    /\ UNCHANGED splitVars
    /\ UNCHANGED uploaderVars
    /\ UNCHANGED <<pdf, faults, stats, records, attempt, now, index, result, error,
                   run, calls, batches, waits>>

MaxSyllabusPieces == 3

\* the pieces of a syllabus: a few words, the two headers, a sentence, a
\* body of four sentences of 300 characters
SyllabusVocab ==
    {<<"a", "b", Blank, "a">>,
     <<"U", "n", "i", "t", "s">>,
     <<"W", "e", "e", "k", Blank, "1">>,
     <<"a", "b", ".">>,
     Join([k \in 1..4 |-> Repeat("a", 300) \o <<".">>], <<Blank>>)}

SyllabusTexts ==
    {Join(ps, <<Newline>>) : ps \in SeqsUpTo(SyllabusVocab, MaxSyllabusPieces)}

(***************************************************************************)
(* SpecSyllabus: upload_syllabus from the text of the syllabus on, with an *)
(* index that accepts every batch                                          *)
(***************************************************************************)
InitSyllabus ==
    /\ pc = "syllabus"
    /\ text \in SyllabusTexts
    /\ Idle
    /\ pdf = NoPdf
    /\ faults = {}
    /\ stats = Stats0
    /\ records = <<>>
    /\ attempt = 0
    /\ now = 0
    /\ index = {}
    /\ result = NoResult
    /\ error = ""
    /\ run = 1
    /\ calls = <<>>
    /\ batches = <<>>
    /\ waits = <<>>
    /\ uploader = "upload_syllabus_chunks"
    /\ sections = <<>>
    /\ section_chunks = <<>>

NextSyllabus ==
    \/ FindSyllabusSections
    \/ SyllabusSplit
    \/ SyllabusKeep
    \/ SyllabusReturn
    \/ UploaderPrepare
    \/ UploaderUpsert
    \/ UploaderReturn

SpecSyllabus == InitSyllabus /\ [][NextSyllabus]_vars

(***************************************************************************)
(* Properties                                                              *)
(***************************************************************************)
RECURSIVE Flatten(_)
Flatten(ss) == IF ss = <<>> THEN <<>> ELSE Head(ss) \o Flatten(Tail(ss))

IsPrefix(a, b) == Len(a) <= Len(b) /\ SubSeq(b, 1, Len(a)) = a

\* the segments held by final chunk k, through the chunks merged into it
FinalSegs(k) ==
    Flatten([j \in 1..Len(final_src[k]) |-> chunk_info[final_src[k][j]].segs])

AllFinalSegs == Flatten([k \in 1..Len(final_src) |-> FinalSegs(k)])

NoOversizedSegment ==
    \A j \in 1..Len(processed_paragraphs) :
        count_tokens(processed_paragraphs[j]) <= max_tokens

\* C1 (as claimed): when the first chunk handed to post_process_chunks has
\* fewer than min_chunk_tokens tokens, the output starts with that chunk,
\* unchanged.
C1_UndersizedFirstChunkKept ==
    (pc = "done" /\ chunks # <<>> /\ count_tokens(chunks[1]) < min_chunk_tokens)
        => /\ final_chunks # <<>>
           /\ final_src[1][1] = 1
           /\ IsPrefix(chunks[1], final_chunks[1])

\* C2 (as claimed): every segment appears, in order, in the non-overlap
\* portion of exactly one chunk that split_text_semantically returns.
C2_Coverage ==
    pc = "done" => AllFinalSegs = [j \in 1..Len(processed_paragraphs) |-> j]

\* C3 (as claimed): with no segment above max_tokens, every chunk closed or
\* flushed by the assembly loop has at most max_tokens tokens.
C3_AssemblerBudget ==
    NoOversizedSegment
        => \A c \in 1..Len(chunks) : count_tokens(chunks[c]) <= max_tokens

\* C3 (amended): with no segment above max_tokens, every chunk closed or
\* flushed by the assembly loop that is the first chunk or holds two or more
\* segments has a running token count (current_tokens) of at most max_tokens.
C3_RunningCountBudget ==
    NoOversizedSegment
        => \A c \in 1..Len(chunk_info) :
               (c = 1 \/ Len(chunk_info[c].segs) >= 2)
                   => chunk_info[c].tokens <= max_tokens

\* a later chunk that holds two segments behind a non-empty overlap prefix
C3_Witness ==
    /\ pc = "post_process"
    /\ NoOversizedSegment
    /\ \E c \in 2..Len(chunk_info) :
           Len(chunk_info[c].segs) >= 2 /\ chunk_info[c].overlap # <<>>

\* C4 (as claimed): a segment that alone exceeds max_tokens is the only
\* segment of a chunk, and that chunk is part of the returned sequence.
C4_OversizedSegmentKept ==
    pc = "done"
        => \A j \in 1..Len(processed_paragraphs) :
               count_tokens(processed_paragraphs[j]) > max_tokens
                   => \E c \in 1..Len(chunks) :
                          /\ chunk_info[c].segs = <<j>>
                          /\ \E k \in 1..Len(final_src) :
                                 \E x \in 1..Len(final_src[k]) : final_src[k][x] = c

\* C5 (as claimed): the text create_intelligent_overlap returns has at most
\* as many tokens as the overlap budget.
C5_OverlapBound ==
    pc = "overlapped" => count_tokens(overlap_out) <= budget

\* C6: every chunk of the list post_process_chunks builds, except possibly
\* the first, has at least min_chunk_tokens tokens.
C6_MinTokens ==
    \A k \in 2..Len(final_chunks) : count_tokens(final_chunks[k]) >= min_chunk_tokens

\* post_process_chunks has returned, and merged an undersized chunk into the
\* second chunk of its result
C6_Witness ==
    /\ pc = "done"
    /\ Len(final_chunks) >= 2
    /\ Len(final_src[2]) >= 2

\* C7: when no segment alone exceeds max_tokens, every chunk of the result of
\* split_text_semantically has at most max_chunk_tokens tokens, merged
\* chunks included.
C7_MaxTokens ==
    NoOversizedSegment
        => \A k \in 1..Len(final_chunks) :
               count_tokens(final_chunks[k]) <= max_chunk_tokens

\* a run without oversized segment that closed several chunks and merged an
\* undersized one into its predecessor
C7_Witness ==
    /\ pc = "done"
    /\ NoOversizedSegment
    /\ Len(chunks) >= 2
    /\ \E k \in 1..Len(final_src) : Len(final_src[k]) >= 2

\* the input is two paragraphs of ScenarioTokens tokens each, separated by a
\* blank line
TwoParagraphScenario ==
    LET paragraphs == SplitParagraphs(text)
    IN  /\ Len(paragraphs) = 2
        /\ \A j \in 1..2 : count_tokens(paragraphs[j]) = ScenarioTokens

\* C8 (as claimed): the two-paragraph scenario yields exactly two chunks; the
\* second is an overlap prefix of at most overlap_tokens tokens from the
\* first chunk, followed by the second paragraph.
C8_TwoParagraphsTwoChunks ==
    (pc = "done" /\ TwoParagraphScenario)
        => /\ Len(final_chunks) = 2
           /\ final_chunks[1] = SplitParagraphs(text)[1]
           /\ \E n \in 0..overlap_tokens :
                  \E prefix \in {Slice(final_chunks[1], a, Len(final_chunks[1])) :
                                    a \in 1..(Len(final_chunks[1]) + 1)} :
                      /\ count_tokens(prefix) = n
                      /\ final_chunks[2]
                             = Strip(JoinBlank(prefix, SplitParagraphs(text)[2]))

\* C9 (as claimed): clean_text(clean_text(x)) = clean_text(x)
C9_Idempotent ==
    pc = "recleaned" => recleaned = cleaned

\* the lines of a text, and the text without its lines made of digits only
Lines(s) == SplitAt(s, LAMBDA p : s[p] = Newline)

IsDigitLine(line) == line # <<>> /\ \A p \in 1..Len(line) : IsDigit(line[p])

WithoutDigitLines(s) ==
    Join(SelectSeq(Lines(s), LAMBDA line : ~IsDigitLine(line)), <<Newline>>)

\* C10 (as claimed): on an input of several lines, clean_text returns what it
\* returns on the input without its digit-only lines: those lines are
\* absent and the content of the other lines is kept.
C10_PageNumberLinesRemoved ==
    (pc = "cleaned" /\ \E p \in 1..Len(text) : text[p] = Newline)
        => cleaned = clean_text(WithoutDigitLines(text))

(***************************************************************************)
(* Properties of generate_embedding and process_textbook                   *)
(***************************************************************************)
Last(q) == q[Len(q)]

\* generate_embedding has returned for chunk c
EmbeddingReturned(c) ==
    \/ pc = "embed" /\ c < i
    \/ pc = "record" /\ c <= i
    \/ pc \in {"upload", "stats"}

\* every call for chunk c failed and no attempt is left
Exhausted(c) ==
    /\ Len(calls[c]) = retries
    /\ \A k \in 1..retries : calls[c][k] \in ServiceFaults

Embedded(c) == calls[c] # <<>> /\ Last(calls[c]) = "ok"

\* C11: for every chunk, generate_embedding calls the service at most
\* retries times and never after a success; once it has returned, either the
\* last call succeeded and its vector is on its way to a record, or all
\* retries calls failed and the chunk is counted as failed; no service
\* failure is raised to process_textbook.
C11_BoundedRetry ==
    /\ error \notin ServiceFaults
    /\ \A c \in 1..Len(calls) :
           /\ Len(calls[c]) <= retries
           /\ \A k \in 1..(Len(calls[c]) - 1) : calls[c][k] # "ok"
           /\ EmbeddingReturned(c) => (Embedded(c) \/ Exhausted(c))
    /\ pc \in {"embed", "record", "upload"}
           => /\ Len(records) + (IF pc = "record" THEN 1 ELSE 0)
                  = Cardinality({c \in 1..Len(calls) : Embedded(c)})
              /\ stats.failed_embeddings
                  = Cardinality({c \in 1..Len(calls) :
                                    EmbeddingReturned(c) /\ Exhausted(c)})

\* the embedding loop is over; one chunk succeeded at its third call and
\* another failed three times
C11_Witness ==
    /\ pc = "upload"
    /\ \E c \in 1..Len(calls) : Len(calls[c]) = retries /\ Embedded(c)
    /\ \E c \in 1..Len(calls) : Exhausted(c)

\* the fields of self.stats (lines 81-88)
StatsFields ==
    {"total_chunks", "successful_embeddings", "failed_embeddings", "total_tokens",
     "processing_time", "start_time"}

\* the document has one chunk; the service failed twice on it, then succeeded
ScenarioC ==
    /\ Len(chunks) = 1
    /\ Len(calls) = 1
    /\ Len(calls[1]) = 3
    /\ calls[1][1] \in ServiceFaults
    /\ calls[1][2] \in ServiceFaults
    /\ calls[1][3] = "ok"

\* C12 (as claimed): in scenario C the run returns a success, with one
\* successful and no failed embedding, and its statistics have an entry,
\* beside the counters of chunks, embeddings, tokens and time, that shows
\* the two retries.
C12_ScenarioC ==
    (pc = "returned" /\ ScenarioC /\ error # "TokenizerError")
        => /\ result.success
           /\ result.statistics.successful_embeddings = 1
           /\ result.statistics.failed_embeddings = 0
           /\ \E f \in (DOMAIN result.statistics) \ StatsFields :
                  result.statistics[f] = 2

\* C13 (as claimed): no call follows an InvalidInputError on the same
\* chunk: the chunk fails after that one call.
C13_InvalidInputNotRetried ==
    \A c \in 1..Len(calls) :
        \A k \in 1..Len(calls[c]) :
            calls[c][k] = "InvalidInputError" => k = Len(calls[c])

\* C14: unless the tokenizer failed, a run that got to chunk its text has
\* called the embedding service at least once for every chunk, has counted
\* one failure for each chunk whose calls all failed and one success for
\* each other chunk, and no embedding failure is the error of the run.
C14_FailedChunkDoesNotAbort ==
    /\ error \notin ServiceFaults
    /\ (pc = "returned" /\ error # "TokenizerError")
           => /\ Len(calls) = Len(chunks)
              /\ \A c \in 1..Len(chunks) : Len(calls[c]) >= 1
              /\ stats.failed_embeddings
                     = Cardinality({c \in 1..Len(chunks) : Exhausted(c)})
              /\ stats.successful_embeddings
                     = Cardinality({c \in 1..Len(chunks) : Embedded(c)})

\* the first chunk failed after all its retries and the second was embedded
C14_Witness ==
    /\ pc = "returned"
    /\ result.success
    /\ Len(chunks) >= 2
    /\ Exhausted(1)
    /\ Embedded(2)

Ceil(n, b) == (n + b - 1) \div b

\* C21: the waits of a chunk are 2^0, 2^1, ... seconds, one after each failed
\* call that is not the last attempt and none after a success; a chunk that
\* failed at every attempt has waited 2^(retries - 1) - 1 seconds in all.
C21_BackoffSchedule ==
    \A c \in 1..Len(waits) :
        /\ \A a \in 1..Len(waits[c]) : waits[c][a] = 2 ^ (a - 1)
        /\ Len(waits[c])
               = Cardinality({k \in 1..Len(calls[c]) :
                                 calls[c][k] \in ServiceFaults /\ k < retries})
        /\ Exhausted(c)
               => Cardinality(UNION {{<<a, t>> : t \in 1..waits[c][a]} :
                                        a \in 1..Len(waits[c])})
                      = 2 ^ (retries - 1) - 1

\* a chunk failed at every attempt, another succeeded at its second call
C21_Witness ==
    /\ pc = "upload"
    /\ \E c \in 1..Len(calls) : Exhausted(c)
    /\ \E c \in 1..Len(calls) : Len(calls[c]) = 2 /\ Embedded(c)

\* the upload loop is over
UploadOver == pc \in {"stats", "except", "returned"}

BatchRecords == [k \in 1..Len(batches) |-> batches[k].records]

\* C15: once the upload loop is over it has submitted ceil(n/b) batches for
\* n records; every batch but the last has b records, the last has the
\* remaining n - b * (ceil(n/b) - 1), and the batches, concatenated in the
\* order of submission, are the record list.
C15_BatchPartition ==
    UploadOver
        => LET n == Len(records)
               b == batch_size
           IN  /\ Len(batches) = Ceil(n, b)
               /\ \A k \in 1..(Len(batches) - 1) : Len(batches[k].records) = b
               /\ n > 0 => Len(Last(batches).records) = n - b * (Ceil(n, b) - 1)
               /\ Flatten(BatchRecords) = records

\* 250 records were submitted in batches of 96, 96 and 58
C15_Witness ==
    /\ UploadOver
    /\ Len(records) = 250
    /\ [k \in 1..Len(batches) |-> Len(batches[k].records)] = <<96, 96, 58>>

\* C16: a batch whose upsert succeeded stays in the index; once the upload
\* loop is over, every batch was submitted whatever the outcome of the
\* batches before it, and a failed upsert is never the error of the run.
C16_PartialBatchFailure ==
    /\ \A k \in 1..Len(batches) :
           batches[k].ok
               => \A r \in 1..Len(batches[k].records) :
                      batches[k].records[r].id \in index
    /\ error # "PersistenceError"
    /\ UploadOver
           => /\ Len(batches) = Ceil(Len(records), batch_size)
              /\ Flatten(BatchRecords) = records
    /\ (pc = "returned" /\ ~result.success) => result.error # "PersistenceError"

\* the run returned a success although a batch failed, and the batch after
\* the failed one was upserted
C16_Witness ==
    /\ pc = "returned"
    /\ result.success
    /\ \E k \in 1..(Len(batches) - 1) : ~batches[k].ok /\ batches[k + 1].ok

\* C17 (as claimed): after the second run on the same document the namespace
\* holds one record per chunk index: the second run gave each chunk the
\* identifier of the first run.
C17_StableIdentifiers ==
    (pc = "returned" /\ run = 2)
        => \A x \in index : \A y \in index : x[1] = y[1] => x = y

\* the reasons the spec gives for a run-level failure: the extraction failed,
\* no text was extracted, the tokenizer failed
FatalErrors == {"FileNotFoundError", "PdfReadError", "ValueError", "TokenizerError"}

\* C18 (as claimed): process_textbook returns a summary that carries the
\* statistics, the time elapsed since the start of the run among them, and
\* the summary is a failure only for a fatal error.
C18_RunLevelOutcome ==
    pc = "returned"
        => /\ StatsFields \subseteq DOMAIN result.statistics
           /\ result.statistics.processing_time = now - result.statistics.start_time
           /\ ~result.success => result.error \in FatalErrors

\* C19: once count_tokens has failed, the run makes no embedding call, no
\* upsert and no further chunk or record, and what it returns is a failure
\* that names the tokenizer.
C19_TokenizerFatal ==
    /\ [](pc = "returned" /\ error = "TokenizerError"
              => ~result.success /\ result.error = "TokenizerError")
    /\ [][error = "TokenizerError"
              => /\ calls' = calls
                 /\ batches' = batches
                 /\ index' = index
                 /\ chunks' = chunks
                 /\ records' = records]_vars

\* the tokenizer failed on the record of the second chunk, after the first
\* chunk was embedded, and the run returned
C19_Witness ==
    /\ pc = "returned"
    /\ error = "TokenizerError"
    /\ Len(records) = 1
    /\ Len(chunks) >= 2

\* C20: split_text_semantically returns the empty sequence for the empty
\* text and for every text that normalization empties.
C20_EmptyInput ==
    (pc = "done" /\ cleaned = <<>>) => final_chunks = <<>>

\* a text of blanks, artifacts or digits went through the whole call
C20_Witness ==
    /\ pc = "done"
    /\ cleaned = <<>>
    /\ Len(text) >= 3

(***************************************************************************)
(* Properties of the regrouping, the overlap and the merge                 *)
(***************************************************************************)
\* the sentences of each sub-paragraph
GroupSentences == [g \in 1..Len(processed_paragraphs) |->
                      SplitSentences(processed_paragraphs[g])]

\* C22: a paragraph of at most 2 * max_tokens tokens is its own single
\* segment; a larger one becomes sub-paragraphs whose sentences, taken in
\* order, are the sentences of the paragraph, and in every sub-paragraph of
\* two or more sentences the token counts of the sentences add up to at most
\* max_tokens.
C22_SentenceRegrouping ==
    pc = "regrouped"
        => IF count_tokens(text) <= 2 * max_tokens
           THEN processed_paragraphs = <<text>>
           ELSE /\ Flatten(GroupSentences) = SplitSentences(text)
                /\ \A g \in 1..Len(GroupSentences) :
                       Len(GroupSentences[g]) >= 2
                           => SumTokens(GroupSentences[g]) <= max_tokens

\* a large paragraph gave a sub-paragraph of two sentences and one made of a
\* single sentence above max_tokens
C22_Witness ==
    /\ pc = "regrouped"
    /\ count_tokens(text) > 2 * max_tokens
    /\ \E g \in 1..Len(GroupSentences) : Len(GroupSentences[g]) >= 2
    /\ \E g \in 1..Len(GroupSentences) :
           /\ Len(GroupSentences[g]) = 1
           /\ count_tokens(processed_paragraphs[g]) > max_tokens

\* the last m words of a word list
LastWords(ws, m) == SubSeq(ws, Len(ws) - m + 1, Len(ws))

\* the words of sentences a..b of a sentence list
WordsOf(sentences, a, b) ==
    Flatten([k \in 1..(b - a + 1) |-> SplitWords(sentences[a + k - 1])])

\* out is made of the last j sentences, whole, behind the last m words of
\* the sentence before them
TrailingShape(out, sentences, j, m) ==
    LET n == Len(sentences)
    IN  /\ j <= n
        /\ IF j = n THEN m = 0 ELSE m <= Len(SplitWords(sentences[n - j]))
        /\ SplitWords(out)
               = (IF m = 0 THEN <<>> ELSE LastWords(SplitWords(sentences[n - j]), m))
                     \o WordsOf(sentences, n - j + 1, n)

\* C23: a chunk within the overlap budget is returned unchanged; otherwise
\* the overlap is a trailing slice of the words of the chunk: some whole
\* trailing sentences behind some trailing words of the sentence before
\* them, and nothing of an earlier sentence.
C23_OverlapShape ==
    pc = "overlapped"
        => IF count_tokens(text) <= budget
           THEN overlap_out = text
           ELSE \E j \in 0..Len(SplitSentences(text)) :
                    \E m \in 0..Len(SplitWords(text)) :
                        TrailingShape(overlap_out, SplitSentences(text), j, m)

\* the overlap of a chunk above the budget holds a whole sentence behind a
\* part of the sentence before it
C23_Witness ==
    /\ pc = "overlapped"
    /\ count_tokens(text) > budget
    /\ \E j \in 1..(Len(SplitSentences(text)) - 1) :
           \E m \in 1..(Len(SplitWords(SplitSentences(text)[Len(SplitSentences(text)) - j])) - 1) :
               TrailingShape(overlap_out, SplitSentences(text), j, m)

\* the chunks that final chunk k holds, in the order they were put there
HeldChunks(k) == [x \in 1..Len(final_src[k]) |-> chunks[final_src[k][x]]]

\* C24: the output of post_process_chunks has at most as many entries as the
\* input; every entry starts with a chunk of [min_chunk_tokens,
\* max_chunk_tokens] tokens, which opened it, followed by the undersized
\* chunks that came next, joined by blanks; the chunks are held in the order
\* of the input; every chunk within the limits opens an entry and every
\* undersized chunk behind an accepted one is merged.
C24_MergeSemantics ==
    pc = "done"
        => /\ Len(final_chunks) <= Len(chunks)
           /\ Len(final_src) = Len(final_chunks)
           /\ \A k \in 1..Len(final_chunks) :
                  /\ final_src[k] # <<>>
                  /\ Accepted(count_tokens(chunks[final_src[k][1]]))
                  /\ \A x \in 2..Len(final_src[k]) :
                         count_tokens(chunks[final_src[k][x]]) < min_chunk_tokens
                  /\ final_chunks[k] = Join(HeldChunks(k), <<Blank>>)
           /\ LET order == Flatten(final_src)
              IN  \A x \in 1..(Len(order) - 1) : order[x] < order[x + 1]
           /\ \A c \in 1..Len(chunks) :
                  LET tokens == count_tokens(chunks[c])
                      held == \E k \in 1..Len(final_src) :
                                  \E x \in 1..Len(final_src[k]) :
                                      final_src[k][x] = c
                      accepted_before ==
                          \E b \in 1..(c - 1) : Accepted(count_tokens(chunks[b]))
                  IN  /\ Accepted(tokens)
                         => \E k \in 1..Len(final_src) : final_src[k][1] = c
                      /\ (tokens < min_chunk_tokens /\ accepted_before) => held

\* post_process_chunks kept a chunk, merged an undersized one into it and
\* kept a later one
C24_Witness ==
    /\ pc = "done"
    /\ Len(final_chunks) >= 2
    /\ Len(final_src[1]) >= 2

(***************************************************************************)
(* Properties of the uploaders                                             *)
(***************************************************************************)
\* C25: when an uploader has returned, every batch of its record list was
\* submitted, whatever the outcome of the earlier batches
C25_EveryBatchSubmitted ==
    pc = "uploaded" => Len(batches) = Ceil(Len(records), uploader_batch_size)

\* C26: the chunks returned by create_rubric_chunks have pairwise distinct
\* ids, so the index holds one record per chunk after a successful upload
C26_UniqueRubricIds ==
    /\ pc \in {"prepare", "batches", "uploaded"} =>
           \A j, k \in 1..Len(section_chunks) :
               j # k => section_chunks[j].id # section_chunks[k].id
    /\ (pc = "uploaded" /\ result = [success |-> TRUE]) =>
           Cardinality(index) = Len(section_chunks)

(***************************************************************************)
(* Properties of process_textbook across calls                             *)
(***************************************************************************)
\* C27: at the end of every run that returns success, the first or a later
\* one on the same instance, successful_embeddings + failed_embeddings is
\* total_chunks and embeddings_created is successful_embeddings
C27_StatisticsConsistency ==
    (pc = "returned" /\ result.success) =>
        /\ stats.successful_embeddings + stats.failed_embeddings = stats.total_chunks
        /\ result.embeddings_created = stats.successful_embeddings

\* the chunks whose embedding succeeded, in chunk order
EmbeddedChunks == SelectSeq([c \in 1..Len(chunks) |-> c], Embedded)

\* generate_embedding has ended for chunk c: a success or retries failures
Attempted(c) == Embedded(c) \/ Exhausted(c)

\* C28: the embedding of chunk c + 1 is not requested before the attempts of
\* chunk c have ended and its record, if any, is built; no batch is upserted
\* before every chunk has been attempted; the records submitted are records
\* of embedded chunks, in chunk order; when the upload loop ends, the
\* submitted batches hold, in order and once each, the embedded chunks, each
\* under its index (counted from 0) in the list of chunks
C28_Ordering ==
    pc \in {"embed", "record", "upload", "stats", "except", "returned"} =>
        /\ \A c \in 1..(Len(calls) - 1) :
               calls[c + 1] # <<>> =>
                   /\ Attempted(c)
                   /\ Embedded(c) => \E k \in 1..Len(records) : records[k].chunk_index = c - 1
        /\ batches # <<>> => \A c \in 1..Len(calls) : Attempted(c)
        /\ \A k \in 1..Len(Flatten(BatchRecords)) :
               /\ Flatten(BatchRecords)[k].chunk_index + 1 \in 1..Len(calls)
               /\ Embedded(Flatten(BatchRecords)[k].chunk_index + 1)
               /\ k > 1 => Flatten(BatchRecords)[k - 1].chunk_index
                               < Flatten(BatchRecords)[k].chunk_index
        /\ pc = "stats" =>
               /\ Len(Flatten(BatchRecords)) = Len(EmbeddedChunks)
               /\ \A k \in 1..Len(EmbeddedChunks) :
                      Flatten(BatchRecords)[k].chunk_index = EmbeddedChunks[k] - 1

\* a failed chunk ahead of an embedded one, the upload loop over
C28_Witness ==
    /\ pc = "stats"
    /\ Len(chunks) = 2
    /\ Exhausted(1)
    /\ Embedded(2)
    /\ Len(batches) = 1
    /\ batches[1].records[1].chunk_index = 1

\* C29: process_textbook eventually returns whatever the embedding service
\* and the vector store do; it never makes more than retries embedding calls
\* for a chunk nor more upserts than there are batches, and the upload loop
\* ends with one upsert per batch
C29_Termination ==
    /\ <>(pc = "returned")
    /\ [](/\ \A c \in 1..Len(calls) : Len(calls[c]) <= retries
          /\ Len(batches) <= Ceil(Len(records), batch_size)
          /\ pc = "stats" => Len(batches) = Ceil(Len(records), batch_size))

\* a run that has returned after a chunk used up its attempts and a batch
\* was refused
C29_Witness ==
    /\ pc = "returned"
    /\ \E c \in 1..Len(calls) : Exhausted(c)
    /\ \E b \in 1..Len(batches) : ~batches[b].ok

(***************************************************************************)
(* Properties of create_syllabus_chunks                                    *)
(***************************************************************************)
\* the characters of a text that are not whitespace, in order
Solid(t) == SelectSeq(t, LAMBDA c : ~IsSpace(c))

\* C30: when a section header is found, the sections, in their order, hold
\* every character of the whitespace-collapsed text once, the text ahead of
\* the first header included (the whitespace stripped between two sections
\* is not counted)
C30_SectionCoverage ==
    (pc \in {"syllabus_chunks", "prepare", "batches", "uploaded"}
        /\ section_boundaries(Collapse(text)) # <<>>)
    => Solid(Flatten(sections)) = Solid(Collapse(text))

====
